---- MODULE Spec2Model ----
(***************************************************************************)
(* The trace replay engine of the simdb viewer                             *)
(* (python/viewer/model/data_retriever.py): DataRetriever.Unpack and the   *)
(* per-element replayers.  The CollectionRecords table is the input; one   *)
(* Unpack call is a sequence of steps: the query is built and the          *)
(* replayers are reset (UnpackBegin), each fetched row is taken            *)
(* (FetchRow), each record of its blob is dispatched to the replayer of    *)
(* its collectable id (ReplayRecord), and the requested element's history  *)
(* is filtered and deserialized (UnpackReturn).                            *)
(***************************************************************************)
EXTENDS Integers, Sequences, FiniteSets, TLC

VARIABLES
    rows,        \* CollectionRecords: <<[Tick, Recs, IsCompressed]>>, ascending by Tick
    heartbeat,   \* CollectionGlobals.Heartbeat (DataRetriever._heartbeat)
    replayers,   \* _replayers_by_elem_path: cid -> [values_by_tick, values]
    pc,          \* "idle" | "rows" | "blob" | "done" | "raised"
    elem_path,   \* Unpack's argument elem_path
    time_range,  \* Unpack's argument time_range: <<>> (None), <<t>> or <<lo, hi>>
    fetched,     \* the rows of cursor.fetchall() not yet taken by the for loop
    tick,        \* the tick of the row being replayed
    data_blob,   \* the local data_blob: what is left of the row's blob
    ret,         \* <<>> or <<[TimeVals, DataVals]>>: what the last call returned
    calls,       \* how many Unpack calls this DataRetriever has taken (up to MaxCalls)
    other,       \* an Unpack call made from a second thread: [pc, elem_path, time_range, ret, during]
    utiliz,      \* [cached_time_val, cached_sizes]: _cached_utiliz_time_val, _cached_utiliz_sizes;
                 \* [time_val, ret]: the last GetIterableSizesByCollectionID call
    deser,       \* a StructDeserializer and its last call: [struct_name, displayed_columns, data_blob, res]
    replayer,    \* a scalar replayer built for one CollectableTreeNodes row and its last Replay
                 \* call: [kind, num_bytes, is_auto_collected, st, tick, data_blob, res]
    view,        \* ViewSettings: [dirty, dirty_reasons, view_file, dlg, since, raised]
    hier         \* SimHierarchy: [nodes, root_id, elem_paths_by_id, elem_ids_by_path, call]

vars == <<rows, heartbeat, replayers, pc, elem_path, time_range, fetched,
          tick, data_blob, ret, calls, other, utiliz, deser, replayer,
          view, hier>>

(***************************************************************************)
(* Bounds of the model.                                                    *)
(***************************************************************************)
MaxRows == 3
MaxCalls == 2

(***************************************************************************)
(* Python values.                                                          *)
(***************************************************************************)
\* None is the empty option, Some(x) a one-element tuple.
None == <<>>
Some(x) == <<x>>

\* The local tick before the for loop has bound it.
NoTick == 0 - 1

Min(a, b) == IF a < b THEN a ELSE b
Max(a, b) == IF a > b THEN a ELSE b

\* b[i:j] of Python for 0 <= i <= j: clamped to the length, never an error.
Slice(b, i, j) == SubSeq(b, i + 1, Min(j, Len(b)))

\* b[i:]
SliceFrom(b, i) == SubSeq(b, i + 1, Len(b))

\* Little-endian value of a byte string (struct.unpack of an unsigned code).
RECURSIVE LittleEndian(_)
LittleEndian(b) ==
    IF Len(b) = 0 THEN 0 ELSE b[1] + 256 * LittleEndian(Tail(b))

\* The little-endian encoding of v on n bytes.
RECURSIVE ToBytes(_, _)
ToBytes(v, n) ==
    IF n = 0 THEN <<>> ELSE <<v % 256>> \o ToBytes(v \div 256, n - 1)

\* struct.unpack(code, b): an error unless b has exactly the code's size.
StructUnpack(nbytes, b) ==
    IF Len(b) = nbytes /\ nbytes > 0
    THEN [ok |-> TRUE, val |-> LittleEndian(b)]
    ELSE [ok |-> FALSE, val |-> 0]

RECURSIVE Concat(_)
Concat(ss) == IF Len(ss) = 0 THEN <<>> ELSE Head(ss) \o Concat(Tail(ss))

\* A dict with v stored under key k.
Put(d, k, v) == [x \in (DOMAIN d) \cup {k} |-> IF x = k THEN v ELSE d[x]]

EmptyDict == [x \in {} |-> 0]

\* sorted(list(d.keys()))
RECURSIVE SortedSeq(_)
SortedSeq(S) ==
    IF S = {} THEN <<>>
    ELSE LET m == CHOOSE x \in S : \A y \in S : x <= y
         IN  <<m>> \o SortedSeq(S \ {m})

(***************************************************************************)
(* The catalog: StructFields and CollectableTreeNodes as                   *)
(* DataRetriever.__init__ reads them.                                      *)
(***************************************************************************)
\* StructFields: the fields of each struct, in declared order.
StructFields ==
    [Pkt |-> << [name |-> "seq", type |-> "uint16_t"],
                [name |-> "op",  type |-> "uint8_t"] >>,
     Big |-> << [name |-> "a", type |-> "uint32_t"],
                [name |-> "b", type |-> "uint32_t"],
                [name |-> "c", type |-> "uint32_t"],
                [name |-> "d", type |-> "uint32_t"] >>]

\* PODReplayer.NUM_BYTES_MAP / PODDeserializer.NUM_BYTES_MAP
NUM_BYTES_MAP(dtype) ==
    CASE dtype \in {"char", "int8_t", "uint8_t"} -> 1
      [] dtype \in {"int16_t", "uint16_t"} -> 2
      [] dtype \in {"int32_t", "uint32_t", "float_t", "bool"} -> 4
      [] dtype \in {"int64_t", "uint64_t", "double_t"} -> 8

\* struct_num_bytes_by_struct_name[struct_name]
RECURSIVE SumFieldBytes(_)
SumFieldBytes(fields) ==
    IF Len(fields) = 0 THEN 0
    ELSE NUM_BYTES_MAP(Head(fields).type) + SumFieldBytes(Tail(fields))

struct_num_bytes(struct_name) == SumFieldBytes(StructFields[struct_name])

\* CollectableTreeNodes: ElementTreeNodeID -> data type and AutoCollected.
\* kind is the replayer class that __init__ picks for the DataType string.
CollectableTreeNodes ==
    1 :> [path |-> "top.count", kind |-> "pod", dtype |-> "uint32_t",
          capacity |-> 0, auto_collected |-> FALSE]
 @@ 2 :> [path |-> "top.big", kind |-> "struct", dtype |-> "Big",
          capacity |-> 0, auto_collected |-> TRUE]
 @@ 3 :> [path |-> "top.queue", kind |-> "contig", dtype |-> "Pkt",
          capacity |-> 3, auto_collected |-> TRUE]
 @@ 4 :> [path |-> "top.table", kind |-> "sparse", dtype |-> "Pkt",
          capacity |-> 2, auto_collected |-> TRUE]
 @@ 5 :> [path |-> "top.small", kind |-> "struct", dtype |-> "Pkt",
          capacity |-> 0, auto_collected |-> TRUE]

CollectableIDs == DOMAIN CollectableTreeNodes

\* self._auto_collected_cids
auto_collected_cids == {c \in CollectableIDs : CollectableTreeNodes[c].auto_collected}

\* simhier.GetElemPath(cid)
GetElemPath(cid) == CollectableTreeNodes[cid].path

ElemPaths == {CollectableTreeNodes[c].path : c \in CollectableIDs}

\* The collectable whose replayer _replayers_by_elem_path holds under a path.
CidOfPath(path) == CHOOSE c \in CollectableIDs : CollectableTreeNodes[c].path = path

\* The width of one value of the element: num_bytes / struct_num_bytes.
ElemNumBytes(cid) ==
    IF CollectableTreeNodes[cid].kind = "pod"
    THEN NUM_BYTES_MAP(CollectableTreeNodes[cid].dtype)
    ELSE struct_num_bytes(CollectableTreeNodes[cid].dtype)

(***************************************************************************)
(* The replayers.  A replayer is [values_by_tick, values]; Replay gives    *)
(* [ok, st, n]: whether it returned, the replayer afterwards (as far as it *)
(* got when it raised), and the number of bytes it returned.               *)
(***************************************************************************)
Returned(st, n) == [ok |-> TRUE, st |-> st, n |-> n]
Raised(st) == [ok |-> FALSE, st |-> st, n |-> 0]

\* PODReplayer.Actions / EnumReplayer.Actions / ScalarStructReplayer.Actions
WRITE == 0
ScalarCARRY == 1
ScalarActions == {WRITE, ScalarCARRY}

\* ContigIterableReplayer.Actions
ARRIVE == 0
DEPART == 1
BOOKENDS == 2
CHANGE == 3
CARRY == 4
FULL == 5
ContigActions == {ARRIVE, DEPART, BOOKENDS, CHANGE, CARRY, FULL}

\* A replayer object before its __init__ has called Reset.
Blank == [values_by_tick |-> EmptyDict, values |-> None]

\* Reset of PODReplayer, ScalarStructReplayer: self.values_by_tick = {}
ScalarReset(st) == [st EXCEPT !.values_by_tick = EmptyDict]

\* ContigIterableReplayer.Reset without its first line: the live list of
\* the previous query survives.
ContigReset_KeepsValues(st) == [st EXCEPT !.values_by_tick = EmptyDict]

\* ContigIterableReplayer.Reset: self.values = None; self.values_by_tick = {}
ContigReset(st) == [st EXCEPT !.values = None, !.values_by_tick = EmptyDict]

\* SparseIterableReplayer.Reset: self.values = [None]*capacity;
\* self.values_by_tick = {}
SparseReset(st, capacity) ==
    [st EXCEPT !.values = Some([i \in 1..capacity |-> None]),
               !.values_by_tick = EmptyDict]

\* replayer.Reset() of the replayer of cid
Reset(cid, st) ==
    CASE CollectableTreeNodes[cid].kind = "contig" -> ContigReset(st)
      [] CollectableTreeNodes[cid].kind = "sparse" ->
            SparseReset(st, CollectableTreeNodes[cid].capacity)
      [] OTHER -> ScalarReset(st)

\* The replayers as DataRetriever.__init__ builds them (every constructor
\* ends in self.Reset()).
NewReplayers == [c \in CollectableIDs |-> Reset(c, Blank)]

\* __GetLastTick: for prev_tick in range(tick-1, -1, -1), the first one that
\* is a key of values_by_tick, None when there is none.
RECURSIVE ScanBack(_, _)
ScanBack(prev_ticks, prev_tick) ==
    IF prev_tick < 0 THEN None
    ELSE IF prev_tick \in prev_ticks THEN Some(prev_tick)
    ELSE ScanBack(prev_ticks, prev_tick - 1)

\* __GetLastTick scanning upwards from tick 0: the earliest tick with an
\* entry instead of the latest one.
GetLastTick_Earliest(values_by_tick, t) ==
    LET below == {u \in DOMAIN values_by_tick : 0 <= u /\ u < t}
    IN  IF below = {} THEN None
        ELSE Some(CHOOSE u \in below : \A w \in below : u <= w)

GetLastTick(values_by_tick, t) == ScanBack(DOMAIN values_by_tick, t - 1)

\* self.Actions(struct.unpack('B', data_blob[:1])[0]): an error on an empty
\* blob (struct.error) and on a value that is no member of the enum (ValueError).
ReadAction(blob, actions) ==
    LET u == StructUnpack(1, Slice(blob, 0, 1))
    IN  IF u.ok /\ u.val \in actions
        THEN [ok |-> TRUE, val |-> u.val]
        ELSE [ok |-> FALSE, val |-> 0]

\* CarryScalar guarding the lookup as the container replayer does: a CARRY
\* with no earlier entry is skipped instead of raising.
CarryScalar_Skip(st, t) ==
    LET last_tick == GetLastTick(st.values_by_tick, t)
    IN  IF last_tick = None
        THEN Returned(st, 1)
        ELSE Returned([st EXCEPT !.values_by_tick =
                          Put(@, t, st.values_by_tick[last_tick[1]])], 1)

\* self.values_by_tick[tick] = self.values_by_tick[self.__GetLastTick(tick)]
CarryScalar(st, t) ==
    LET last_tick == GetLastTick(st.values_by_tick, t)
    IN  IF last_tick = None
        THEN Raised(st)                                  \* KeyError: None
        ELSE Returned([st EXCEPT !.values_by_tick =
                          Put(@, t, st.values_by_tick[last_tick[1]])], 1)

\* PODReplayer.Replay
PODReplayer_Replay(st, num_bytes, t, blob, is_auto_collected) ==
    IF num_bytes < 16 \/ ~is_auto_collected
    THEN LET u == StructUnpack(num_bytes, Slice(blob, 0, num_bytes))
         IN  IF u.ok
             THEN Returned([st EXCEPT !.values_by_tick = Put(@, t, u.val)], num_bytes)
             ELSE Raised(st)
    ELSE LET action == ReadAction(blob, ScalarActions)
         IN  IF ~action.ok THEN Raised(st)
             ELSE IF action.val = WRITE
             THEN LET u == StructUnpack(num_bytes, Slice(blob, 1, 1 + num_bytes))
                  IN  IF u.ok
                      THEN Returned([st EXCEPT !.values_by_tick = Put(@, t, u.val)],
                                    1 + num_bytes)
                      ELSE Raised(st)
             ELSE CarryScalar(st, t)

\* ScalarStructReplayer.Replay reading the tag as a plain integer instead of
\* through the Actions enum: every tag other than WRITE is taken as a CARRY.
ScalarStructReplayer_Replay_NoEnum(st, struct_num_bytes_, t, blob, is_auto_collected) ==
    IF struct_num_bytes_ < 16 \/ ~is_auto_collected
    THEN Returned([st EXCEPT !.values_by_tick =
                      Put(@, t, Slice(blob, 0, struct_num_bytes_))],
                  struct_num_bytes_)
    ELSE LET u == StructUnpack(1, Slice(blob, 0, 1))
         IN  IF ~u.ok THEN Raised(st)
             ELSE IF u.val = WRITE
             THEN Returned([st EXCEPT !.values_by_tick =
                               Put(@, t, Slice(blob, 1, 1 + struct_num_bytes_))],
                           1 + struct_num_bytes_)
             ELSE CarryScalar(st, t)

\* ScalarStructReplayer.Replay reading an action tag whenever the struct is
\* 16 bytes or wider, auto-collected or not.
ScalarStructReplayer_Replay_TagWide(st, struct_num_bytes_, t, blob, is_auto_collected) ==
    IF struct_num_bytes_ < 16
    THEN Returned([st EXCEPT !.values_by_tick =
                      Put(@, t, Slice(blob, 0, struct_num_bytes_))],
                  struct_num_bytes_)
    ELSE LET action == ReadAction(blob, ScalarActions)
         IN  IF ~action.ok THEN Raised(st)
             ELSE IF action.val = WRITE
             THEN Returned([st EXCEPT !.values_by_tick =
                               Put(@, t, Slice(blob, 1, 1 + struct_num_bytes_))],
                           1 + struct_num_bytes_)
             ELSE CarryScalar(st, t)

\* ScalarStructReplayer.Replay
ScalarStructReplayer_Replay(st, struct_num_bytes_, t, blob, is_auto_collected) ==
    IF struct_num_bytes_ < 16 \/ ~is_auto_collected
    THEN Returned([st EXCEPT !.values_by_tick =
                      Put(@, t, Slice(blob, 0, struct_num_bytes_))],
                  struct_num_bytes_)
    ELSE LET action == ReadAction(blob, ScalarActions)
         IN  IF ~action.ok THEN Raised(st)
             ELSE IF action.val = WRITE
             THEN Returned([st EXCEPT !.values_by_tick =
                               Put(@, t, Slice(blob, 1, 1 + struct_num_bytes_))],
                           1 + struct_num_bytes_)
             ELSE CarryScalar(st, t)

\* num_bytes_to_advance with CHANGE: 1 + struct_num_bytes, the two bytes of
\* the bin index forgotten.
num_bytes_to_advance_ChangeShort(action, W) ==
    CASE action = ARRIVE -> 1 + W
      [] action = DEPART -> 1
      [] action = BOOKENDS -> 1 + W
      [] action = CHANGE -> 1 + W
      [] action = CARRY -> 1

\* ContigIterableReplayer.num_bytes_to_advance[action]
num_bytes_to_advance(action, W) ==
    CASE action = ARRIVE -> 1 + W
      [] action = DEPART -> 1
      [] action = BOOKENDS -> 1 + W
      [] action = CHANGE -> 3 + W
      [] action = CARRY -> 1

\* self.values_by_tick[tick] = self.values without the deep copy: the entry of
\* the last tick is the same list object, and shows the new list too.
ContigStore_Shared(st, t, list) ==
    LET last_tick == GetLastTick(st.values_by_tick, t)
        shared == IF last_tick = None THEN st.values_by_tick
                  ELSE Put(st.values_by_tick, last_tick[1], list)
    IN  [values_by_tick |-> Put(shared, t, list), values |-> Some(list)]

\* self.values_by_tick[tick] = copy.deepcopy(self.values)
ContigStore(st, t, list) ==
    [values_by_tick |-> Put(st.values_by_tick, t, list), values |-> Some(list)]

\* The FULL branch appending the payload to the list already held instead of
\* starting from an empty one.
ContigFull_Extend(st, W, t, blob) ==
    LET u == StructUnpack(2, Slice(blob, 1, 3))
    IN  IF ~u.ok THEN Raised(st)
        ELSE LET list == [i \in 1..u.val |->
                             Slice(blob, 3 + (i - 1) * W, 3 + i * W)]
                 held == IF st.values = None THEN <<>> ELSE st.values[1]
             IN  Returned(ContigStore(st, t, held \o list), 3 + u.val * W)

\* The FULL branch of ContigIterableReplayer.Replay
ContigFull(st, W, t, blob) ==
    LET u == StructUnpack(2, Slice(blob, 1, 3))
    IN  IF ~u.ok THEN Raised(st)
        ELSE LET list == [i \in 1..u.val |->
                             Slice(blob, 3 + (i - 1) * W, 3 + i * W)]
             IN  Returned(ContigStore(st, t, list), 3 + u.val * W)

\* The ARRIVE branch: append to the back.
ContigArrive(st, W, t, blob) ==
    IF st.values # None
    THEN Returned(ContigStore(st, t, Append(st.values[1], Slice(blob, 1, 1 + W))),
                  num_bytes_to_advance(ARRIVE, W))
    ELSE Returned(st, num_bytes_to_advance(ARRIVE, W))

\* ContigDepart with self.values.pop() for self.values.pop(0): the newest
\* element leaves instead of the oldest.
ContigDepart_PopBack(st, W, t, blob) ==
    IF st.values # None
    THEN IF Len(st.values[1]) = 0 THEN Raised(st)
         ELSE Returned(ContigStore(st, t, SubSeq(st.values[1], 1, Len(st.values[1]) - 1)),
                       num_bytes_to_advance(DEPART, W))
    ELSE Returned(st, num_bytes_to_advance(DEPART, W))

\* The DEPART branch tolerating an empty list: nothing is popped and the
\* empty list is stored for the tick.
ContigDepart_Lenient(st, W, t, blob) ==
    IF st.values # None
    THEN IF Len(st.values[1]) = 0
         THEN Returned(ContigStore(st, t, <<>>), num_bytes_to_advance(DEPART, W))
         ELSE Returned(ContigStore(st, t, Tail(st.values[1])),
                       num_bytes_to_advance(DEPART, W))
    ELSE Returned(st, num_bytes_to_advance(DEPART, W))

\* The DEPART branch: self.values.pop(0), an IndexError on an empty list.
ContigDepart(st, W, t, blob) ==
    IF st.values # None
    THEN IF Len(st.values[1]) = 0 THEN Raised(st)
         ELSE Returned(ContigStore(st, t, Tail(st.values[1])),
                       num_bytes_to_advance(DEPART, W))
    ELSE Returned(st, num_bytes_to_advance(DEPART, W))

\* The CHANGE branch inserting the struct before position bin_idx instead of
\* overwriting the element there.
ContigChange_Insert(st, W, t, blob) ==
    LET u == StructUnpack(2, Slice(blob, 1, 3))
    IN  IF ~u.ok THEN Raised(st)
        ELSE IF st.values # None
        THEN IF u.val >= Len(st.values[1]) THEN Raised(st)
             ELSE Returned(ContigStore(st, t,
                               SubSeq(st.values[1], 1, u.val)
                                  \o <<Slice(blob, 3, 3 + W)>>
                                  \o SubSeq(st.values[1], u.val + 1, Len(st.values[1]))),
                           num_bytes_to_advance(CHANGE, W))
        ELSE Returned(st, num_bytes_to_advance(CHANGE, W))

\* The CHANGE branch: self.values[bin_idx] = struct_blob, an IndexError when
\* bin_idx is not an index of the list.
ContigChange(st, W, t, blob) ==
    LET u == StructUnpack(2, Slice(blob, 1, 3))
    IN  IF ~u.ok THEN Raised(st)
        ELSE IF st.values # None
        THEN IF u.val >= Len(st.values[1]) THEN Raised(st)
             ELSE Returned(ContigStore(st, t,
                               [st.values[1] EXCEPT ![u.val + 1] = Slice(blob, 3, 3 + W)]),
                           num_bytes_to_advance(CHANGE, W))
        ELSE Returned(st, num_bytes_to_advance(CHANGE, W))

\* The BOOKENDS branch working at the wrong ends: insert at the front, pop
\* from the back.
ContigBookends_PushFront(st, W, t, blob) ==
    IF st.values # None
    THEN Returned(ContigStore(st, t,
                      SubSeq(<<Slice(blob, 1, 1 + W)>> \o st.values[1],
                             1, Len(st.values[1]))),
                  num_bytes_to_advance(BOOKENDS, W))
    ELSE Returned(st, num_bytes_to_advance(BOOKENDS, W))

\* The BOOKENDS branch returning the tag's byte alone when there is no list
\* to update.
ContigBookends_TagOnly(st, W, t, blob) ==
    IF st.values # None
    THEN Returned(ContigStore(st, t,
                      Tail(Append(st.values[1], Slice(blob, 1, 1 + W)))),
                  num_bytes_to_advance(BOOKENDS, W))
    ELSE Returned(st, 1)

\* The BOOKENDS branch: append, then pop(0).
ContigBookends(st, W, t, blob) ==
    IF st.values # None
    THEN Returned(ContigStore(st, t,
                      Tail(Append(st.values[1], Slice(blob, 1, 1 + W)))),
                  num_bytes_to_advance(BOOKENDS, W))
    ELSE Returned(st, num_bytes_to_advance(BOOKENDS, W))

\* The CARRY branch returning its byte count without copying the entry of
\* the last tick.
ContigCarry_NoStore(st, W, t, blob) ==
    Returned(st, num_bytes_to_advance(CARRY, W))

\* The CARRY branch storing an empty list for the tick instead of the copy of
\* the last tick's entry.
ContigCarry_Empty(st, W, t, blob) ==
    IF st.values # None
    THEN Returned([st EXCEPT !.values_by_tick = Put(@, t, <<>>)],
                  num_bytes_to_advance(CARRY, W))
    ELSE Returned(st, num_bytes_to_advance(CARRY, W))

\* The CARRY branch copying the entry of the earliest recorded tick instead
\* of the latest one.
ContigCarry_Oldest(st, W, t, blob) ==
    IF st.values # None
    THEN LET last_tick == GetLastTick_Earliest(st.values_by_tick, t)
         IN  IF last_tick = None THEN Raised(st)
             ELSE Returned([st EXCEPT !.values_by_tick =
                               Put(@, t, st.values_by_tick[last_tick[1]])],
                           num_bytes_to_advance(CARRY, W))
    ELSE Returned(st, num_bytes_to_advance(CARRY, W))

\* The CARRY branch: the entry of the last tick is copied; self.values stays.
ContigCarry(st, W, t, blob) ==
    IF st.values # None
    THEN LET last_tick == GetLastTick(st.values_by_tick, t)
         IN  IF last_tick = None THEN Raised(st)         \* KeyError: None
             ELSE Returned([st EXCEPT !.values_by_tick =
                               Put(@, t, st.values_by_tick[last_tick[1]])],
                           num_bytes_to_advance(CARRY, W))
    ELSE Returned(st, num_bytes_to_advance(CARRY, W))

\* ContigIterableReplayer.Replay
ContigIterableReplayer_Replay(st, W, t, blob, is_auto_collected) ==
    IF ~is_auto_collected THEN Raised(st)                \* assert is_auto_collected
    ELSE LET action == ReadAction(blob, ContigActions)
         IN  IF ~action.ok THEN Raised(st)
             ELSE CASE action.val = FULL -> ContigFull(st, W, t, blob)
                    [] action.val = ARRIVE -> ContigArrive(st, W, t, blob)
                    [] action.val = DEPART -> ContigDepart(st, W, t, blob)
                    [] action.val = CHANGE -> ContigChange(st, W, t, blob)
                    [] action.val = BOOKENDS -> ContigBookends(st, W, t, blob)
                    [] action.val = CARRY -> ContigCarry(st, W, t, blob)

\* The for loop storing the i-th struct in the i-th bucket, whatever bucket
\* index the index block gives for it.
RECURSIVE SparseFill_Positional(_, _, _, _, _, _)
SparseFill_Positional(values, blob, size, i, W, capacity) ==
    IF i >= size THEN [ok |-> TRUE, values |-> values]
    ELSE LET u == StructUnpack(2, Slice(blob, 2 + i * 2, 2 + (i + 1) * 2))
             struct_blob == Slice(blob, 2 + size * 2 + i * W,
                                  2 + size * 2 + (i + 1) * W)
         IN  IF ~u.ok THEN [ok |-> FALSE, values |-> values]
             ELSE IF ~(u.val < capacity /\ u.val < Len(values))
             THEN [ok |-> FALSE, values |-> values]
             ELSE SparseFill_Positional([values EXCEPT ![i + 1] = Some(struct_blob)],
                                        blob, size, i + 1, W, capacity)

\* The for loop of SparseIterableReplayer.Replay from entry i (0-based) on:
\* [ok, values], values as far as the loop got when it raised.
RECURSIVE SparseFill(_, _, _, _, _, _)
SparseFill(values, blob, size, i, W, capacity) ==
    IF i >= size THEN [ok |-> TRUE, values |-> values]
    ELSE LET u == StructUnpack(2, Slice(blob, 2 + i * 2, 2 + (i + 1) * 2))
             struct_blob == Slice(blob, 2 + size * 2 + i * W,
                                  2 + size * 2 + (i + 1) * W)
         IN  IF ~u.ok THEN [ok |-> FALSE, values |-> values]
             ELSE IF ~(u.val < capacity /\ u.val < Len(values))
             THEN [ok |-> FALSE, values |-> values]      \* assert bin_idx < capacity
             ELSE SparseFill([values EXCEPT ![u.val + 1] = Some(struct_blob)],
                             blob, size, i + 1, W, capacity)

\* SparseIterableReplayer.Replay
SparseIterableReplayer_Replay(st, W, capacity, t, blob, is_auto_collected) ==
    IF ~is_auto_collected THEN Raised(st)                \* assert is_auto_collected
    ELSE LET u == StructUnpack(2, Slice(blob, 0, 2))
         IN  IF ~u.ok THEN Raised(st)
             ELSE LET f == SparseFill(st.values[1], blob, u.val, 0, W, capacity)
                  IN  IF ~f.ok THEN Raised([st EXCEPT !.values = Some(f.values)])
                      ELSE Returned([values_by_tick |-> Put(st.values_by_tick, t, f.values),
                                     values |-> Some(f.values)],
                                    2 + u.val * 2 + u.val * W)

\* replayer.Replay(tick, data_blob, is_auto_collected, is_dev_debug) of the
\* replayer that __init__ built for cid.
Replay(cid, st, t, blob) ==
    LET node == CollectableTreeNodes[cid]
        is_auto_collected == cid \in auto_collected_cids
    IN  CASE node.kind = "pod" ->
                PODReplayer_Replay(st, ElemNumBytes(cid), t, blob, is_auto_collected)
          [] node.kind = "struct" ->
                ScalarStructReplayer_Replay(st, ElemNumBytes(cid), t, blob, is_auto_collected)
          [] node.kind = "contig" ->
                ContigIterableReplayer_Replay(st, ElemNumBytes(cid), t, blob, is_auto_collected)
          [] node.kind = "sparse" ->
                SparseIterableReplayer_Replay(st, ElemNumBytes(cid), node.capacity, t, blob,
                                              is_auto_collected)

(***************************************************************************)
(* The deserializers that Unpack runs on the requested element's history.  *)
(***************************************************************************)
\* _displayed_columns_by_struct_name[struct_name] after
\* ResetToDefaultViewSettings: every field is displayed by default.
DisplayedColumns(struct_name) ==
    {StructFields[struct_name][i].name : i \in DOMAIN StructFields[struct_name]}

\* The loop with tiny_start += nbytes moved below the visibility test: a
\* hidden field does not advance the offset.
RECURSIVE DeserializeFields_HiddenNoAdvance(_, _, _, _, _)
DeserializeFields_HiddenNoAdvance(fields, i, tiny_start, blob, visible_field_names) ==
    IF i > Len(fields) THEN [ok |-> TRUE, res |-> <<>>]
    ELSE LET nbytes == NUM_BYTES_MAP(fields[i].type)
             tiny_blob == Slice(blob, tiny_start, tiny_start + nbytes)
         IN  IF fields[i].name \notin visible_field_names
             THEN DeserializeFields_HiddenNoAdvance(fields, i + 1, tiny_start, blob,
                                                    visible_field_names)
             ELSE LET u == StructUnpack(nbytes, Slice(tiny_blob, 0, nbytes))
                      rest == DeserializeFields_HiddenNoAdvance(
                                  fields, i + 1, tiny_start + nbytes, blob,
                                  visible_field_names)
                  IN  IF ~u.ok \/ ~rest.ok THEN [ok |-> FALSE, res |-> <<>>]
                      ELSE [ok |-> TRUE,
                            res |-> <<[name |-> fields[i].name, val |-> u.val]>> \o rest.res]

\* The loop of StructDeserializer.Deserialize over the fields from field i
\* on, tiny_start being the offset reached: [ok, res], res the (field name,
\* value) pairs in the order they were stored.
RECURSIVE DeserializeFields(_, _, _, _, _)
DeserializeFields(fields, i, tiny_start, blob, visible_field_names) ==
    IF i > Len(fields) THEN [ok |-> TRUE, res |-> <<>>]
    ELSE LET nbytes == NUM_BYTES_MAP(fields[i].type)
             tiny_blob == Slice(blob, tiny_start, tiny_start + nbytes)
             rest == DeserializeFields(fields, i + 1, tiny_start + nbytes, blob,
                                       visible_field_names)
         IN  IF fields[i].name \notin visible_field_names THEN rest
             ELSE LET u == StructUnpack(nbytes, Slice(tiny_blob, 0, nbytes))
                  IN  IF ~u.ok \/ ~rest.ok THEN [ok |-> FALSE, res |-> <<>>]
                      ELSE [ok |-> TRUE,
                            res |-> <<[name |-> fields[i].name, val |-> u.val]>> \o rest.res]

\* StructDeserializer.Deserialize(data_blob) of a byte string
StructDeserializer_Deserialize(struct_name, blob, visible_field_names) ==
    IF visible_field_names = {} THEN [ok |-> FALSE, res |-> <<>>]   \* assert len > 0
    ELSE DeserializeFields(StructFields[struct_name], 1, 0, blob, visible_field_names)

\* [deserializer.Deserialize(b) for b in blobs], blobs a list of byte strings
RECURSIVE DeserializeList(_, _)
DeserializeList(struct_name, blobs) ==
    IF Len(blobs) = 0 THEN [ok |-> TRUE, res |-> <<>>]
    ELSE LET d == StructDeserializer_Deserialize(struct_name, Head(blobs),
                                                 DisplayedColumns(struct_name))
             rest == DeserializeList(struct_name, Tail(blobs))
         IN  IF ~d.ok \/ ~rest.ok THEN [ok |-> FALSE, res |-> <<>>]
             ELSE [ok |-> TRUE, res |-> <<d.res>> \o rest.res]

\* Lines 329-332 of Unpack for one history entry: every item that iterating
\* the entry yields goes through deserializer.Deserialize.  A list of byte
\* strings (contiguous container) is deserialized item by item; a None
\* bucket (sparse container) is no byte string (TypeError); iterating a byte
\* string (struct) yields ints, which are no byte strings (TypeError);
\* a number (POD) cannot be iterated (TypeError).
DeserializeEntry(cid, entry) ==
    LET node == CollectableTreeNodes[cid]
    IN  CASE node.kind = "contig" -> DeserializeList(node.dtype, entry)
          [] node.kind = "sparse" ->
                IF \E i \in DOMAIN entry : entry[i] = None
                THEN [ok |-> FALSE, res |-> <<>>]
                ELSE DeserializeList(node.dtype, [i \in DOMAIN entry |-> entry[i][1]])
          [] node.kind = "struct" ->
                IF Len(entry) = 0 THEN [ok |-> TRUE, res |-> <<>>]
                ELSE [ok |-> FALSE, res |-> <<>>]
          [] node.kind = "pod" -> [ok |-> FALSE, res |-> <<>>]

\* The filter with its lower bound dropped: tick <= time_range[1] alone.
InRange_NoLower(t, tr) == tr = None \/ t <= tr[2]

\* if time_range is None or (tick >= time_range[0] and tick <= time_range[1])
InRange(t, tr) == tr = None \/ (t >= tr[1] /\ t <= tr[2])

\* The loop of lines 325-332 over the sorted ticks: [ok, TimeVals, DataVals].
RECURSIVE CollectResult(_, _, _, _)
CollectResult(cid, values_by_tick, ticks, tr) ==
    IF Len(ticks) = 0 THEN [ok |-> TRUE, TimeVals |-> <<>>, DataVals |-> <<>>]
    ELSE LET t == Head(ticks)
             rest == CollectResult(cid, values_by_tick, Tail(ticks), tr)
         IN  IF ~InRange(t, tr) THEN rest
             ELSE LET d == DeserializeEntry(cid, values_by_tick[t])
                  IN  IF ~d.ok \/ ~rest.ok
                      THEN [ok |-> FALSE, TimeVals |-> <<>>, DataVals |-> <<>>]
                      ELSE [ok |-> TRUE,
                            TimeVals |-> <<t>> \o rest.TimeVals,
                            DataVals |-> <<d.res>> \o rest.DataVals]

(***************************************************************************)
(* The blobs of CollectionRecords.Data.  A row holds its records as        *)
(* [cid, kind, structs, idxs, body]: the collectable id, what the producer *)
(* wrote (the kind of record, the values and the indices it carries), and  *)
(* the bytes that follow the id.  The blob is the records' encodings       *)
(* concatenated, whole-blob compressed when IsCompressed.                  *)
(***************************************************************************)
Rec(cid, kind, structs, idxs, body) ==
    [cid |-> cid, kind |-> kind, structs |-> structs, idxs |-> idxs, body |-> body]

\* [uint16 collectable_id][type-specific payload]
EncodeRec(rec) == ToBytes(rec.cid, 2) \o rec.body

RECURSIVE EncodeBlob(_)
EncodeBlob(recs) ==
    IF Len(recs) = 0 THEN <<>> ELSE EncodeRec(Head(recs)) \o EncodeBlob(Tail(recs))

\* A one-byte checksum of a byte string.
RECURSIVE Checksum(_)
Checksum(b) == IF Len(b) = 0 THEN 1 ELSE (b[1] + Checksum(Tail(b))) % 251

\* zlib: a two-byte header, the data, a checksum.
ZlibCompress(b) == <<120, 156>> \o b \o <<Checksum(b)>>

\* zlib.decompress(data_blob): zlib.error unless the header and the checksum fit.
ZlibDecompress(z) ==
    IF Len(z) >= 3 /\ z[1] = 120 /\ z[2] = 156
       /\ z[Len(z)] = Checksum(SubSeq(z, 3, Len(z) - 1))
    THEN [ok |-> TRUE, val |-> SubSeq(z, 3, Len(z) - 1)]
    ELSE [ok |-> FALSE, val |-> <<>>]

\* The Data column of a row.
RowData(row) ==
    IF row.IsCompressed THEN ZlibCompress(EncodeBlob(row.Recs))
    ELSE EncodeBlob(row.Recs)

(***************************************************************************)
(* DataRetriever.Unpack                                                    *)
(***************************************************************************)
\* self._time_vals: SELECT DISTINCT(Tick) ... ORDER BY Tick ASC
time_vals(rs) == [i \in 1..Len(rs) |-> rs[i].Tick]

\* if type(time_range) in (int, float): time_range = (time_range, time_range)
NormalizeRange(tr) == IF Len(tr) = 1 THEN <<tr[1], tr[1]>> ELSE tr

\* Lines 259-273: the first time value >= lo, stepped back heartbeat
\* positions (clamped at index 0); None when no time value is >= lo.
RECURSIVE FindStartTime_NoLookback(_, _, _, _)
FindStartTime_NoLookback(tv, i, lo, hb) ==
    IF i > Len(tv) THEN None
    ELSE IF tv[i] >= lo
    THEN Some(tv[i])
    ELSE FindStartTime_NoLookback(tv, i + 1, lo, hb)

RECURSIVE FindStartTime(_, _, _, _)
FindStartTime(tv, i, lo, hb) ==
    IF i > Len(tv) THEN None
    ELSE IF tv[i] >= lo
    THEN LET start_idx == Max(0, (i - 1) - hb)
         IN  Some(tv[start_idx + 1])
    ELSE FindStartTime(tv, i + 1, lo, hb)

\* The WHERE clause of the query as a predicate on Tick, for a normalized
\* range that is not None: [ok, start, hi].  The statement is no valid SQL
\* when there is no clause at all ("WHERE  ORDER BY") or when it reads
\* "Tick>=None".
BuildQuery(rs, hb, tr) ==
    LET start_time == IF tr[1] >= 0 THEN FindStartTime(time_vals(rs), 1, tr[1], hb)
                      ELSE None
    IN  IF tr[1] >= 0 /\ start_time = None THEN [ok |-> FALSE, start |-> None]
        ELSE IF tr[1] < 0 /\ tr[2] < 0 THEN [ok |-> FALSE, start |-> None]
        ELSE [ok |-> TRUE, start |-> start_time]

\* Whether the query selects a row.
Selected(row, tr, q) ==
    \/ tr = None
    \/ /\ (q.start = None \/ row.Tick >= q.start[1])
       /\ (tr[2] < 0 \/ row.Tick <= tr[2])

\* cursor.fetchall(): the selected rows, ascending by Tick.
RECURSIVE FetchAll(_, _, _)
FetchAll(rs, tr, q) ==
    IF Len(rs) = 0 THEN <<>>
    ELSE IF Selected(Head(rs), tr, q) THEN <<Head(rs)>> \o FetchAll(Tail(rs), tr, q)
    ELSE FetchAll(Tail(rs), tr, q)

\* for replayer in self._replayers_by_elem_path.values(): replayer.Reset()
ResetAll(reps) == [c \in CollectableIDs |-> Reset(c, reps[c])]

\* Lines 247-292: the query is built and executed, the replayers are reset.
UnpackBegin(path, tr_arg) ==
    /\ pc \in {"idle", "done", "raised"}
    /\ LET tr == NormalizeRange(tr_arg)
           q == IF tr = None THEN [ok |-> TRUE, start |-> None]
                ELSE BuildQuery(rows, heartbeat, tr)
       IN  /\ elem_path' = path
           /\ time_range' = tr
           /\ ret' = None
           /\ IF q.ok
              THEN /\ fetched' = FetchAll(rows, tr, q)
                   /\ replayers' = ResetAll(replayers)
                   /\ pc' = "rows"
              ELSE /\ pc' = "raised"                      \* sqlite3.OperationalError
                   /\ UNCHANGED <<fetched, replayers>>
           /\ tick' = NoTick
           /\ data_blob' = <<>>
    /\ calls' = Min(calls + 1, MaxCalls)
    /\ UNCHANGED <<rows, heartbeat, other, utiliz, deser, replayer, view, hier>>

\* Lines 293-295: the for loop takes the next row.
FetchRow ==
    /\ pc = "rows"
    /\ fetched # <<>>
    /\ LET row == Head(fetched)
           z == IF row.IsCompressed THEN ZlibDecompress(RowData(row))
                ELSE [ok |-> TRUE, val |-> RowData(row)]
       IN  /\ tick' = row.Tick
           /\ fetched' = Tail(fetched)
           /\ data_blob' = z.val
           /\ pc' = IF z.ok THEN "blob" ELSE "raised"
    /\ UNCHANGED <<rows, heartbeat, replayers, elem_path, time_range, ret, calls,
                   other, utiliz, deser, replayer, view, hier>>

\* One pass of the while loop that keeps what Replay did only for the
\* requested element: the record of any other element is measured and
\* stepped over.
ReplayRecord_OnlyRequested ==
    /\ pc = "blob"
    /\ LET u == StructUnpack(2, Slice(data_blob, 0, 2))
           blob == SliceFrom(data_blob, 2)
       IN  IF ~u.ok
           THEN /\ pc' = "raised"
                /\ UNCHANGED <<replayers, data_blob>>
           ELSE IF u.val \notin CollectableIDs
           THEN /\ pc' = "raised"
                /\ data_blob' = blob
                /\ UNCHANGED replayers
           ELSE LET r == Replay(u.val, replayers[u.val], tick, blob)
                IN  /\ replayers' = IF GetElemPath(u.val) = elem_path
                                    THEN [replayers EXCEPT ![u.val] = r.st]
                                    ELSE replayers
                    /\ IF ~r.ok
                       THEN /\ pc' = "raised"
                            /\ data_blob' = blob
                       ELSE IF r.n = 0
                       THEN /\ pc' = "rows"
                            /\ data_blob' = blob
                       ELSE /\ data_blob' = SliceFrom(blob, r.n)
                            /\ pc' = IF Len(SliceFrom(blob, r.n)) = 0
                                     THEN "rows" ELSE "blob"
    /\ UNCHANGED <<rows, heartbeat, elem_path, time_range, fetched, tick, ret, calls,
                   other, utiliz, deser, replayer, view, hier>>

\* Lines 297-316: one pass of the while loop.
ReplayRecord ==
    /\ pc = "blob"
    /\ LET u == StructUnpack(2, Slice(data_blob, 0, 2))
           blob == SliceFrom(data_blob, 2)
       IN  IF ~u.ok
           THEN /\ pc' = "raised"                         \* struct.error
                /\ UNCHANGED <<replayers, data_blob>>
           ELSE IF u.val \notin CollectableIDs
           THEN /\ pc' = "raised"                         \* KeyError
                /\ data_blob' = blob
                /\ UNCHANGED replayers
           ELSE LET r == Replay(u.val, replayers[u.val], tick, blob)
                IN  /\ replayers' = [replayers EXCEPT ![u.val] = r.st]
                    /\ IF ~r.ok
                       THEN /\ pc' = "raised"
                            /\ data_blob' = blob
                       ELSE IF r.n = 0
                       THEN /\ pc' = "rows"
                            /\ data_blob' = blob
                       ELSE /\ data_blob' = SliceFrom(blob, r.n)
                            /\ pc' = IF Len(SliceFrom(blob, r.n)) = 0
                                     THEN "rows" ELSE "blob"
    /\ UNCHANGED <<rows, heartbeat, elem_path, time_range, fetched, tick, ret, calls,
                   other, utiliz, deser, replayer, view, hier>>

\* Lines 318-334 with a lookup that yields an empty history for a path that
\* has no replayer (dict.get in place of the subscript).
UnpackReturn_NoPathCheck ==
    /\ pc = "rows"
    /\ fetched = <<>>
    /\ IF elem_path \notin ElemPaths
       THEN /\ pc' = "done"
            /\ ret' = Some([TimeVals |-> <<>>, DataVals |-> <<>>])
       ELSE LET cid == CidOfPath(elem_path)
                values_by_tick == replayers[cid].values_by_tick
                res == CollectResult(cid, values_by_tick,
                                     SortedSeq(DOMAIN values_by_tick), time_range)
            IN  IF res.ok
                THEN /\ pc' = "done"
                     /\ ret' = Some([TimeVals |-> res.TimeVals, DataVals |-> res.DataVals])
                ELSE /\ pc' = "raised"
                     /\ ret' = None
    /\ UNCHANGED <<rows, heartbeat, replayers, elem_path, time_range, fetched,
                   tick, data_blob, calls, other, utiliz, deser, replayer, view, hier>>

\* Lines 318-334: the requested element's history, filtered and deserialized.
UnpackReturn ==
    /\ pc = "rows"
    /\ fetched = <<>>
    /\ IF elem_path \notin ElemPaths
       THEN /\ pc' = "raised"                             \* KeyError
            /\ ret' = None
       ELSE LET cid == CidOfPath(elem_path)
                values_by_tick == replayers[cid].values_by_tick
                res == CollectResult(cid, values_by_tick,
                                     SortedSeq(DOMAIN values_by_tick), time_range)
            IN  IF res.ok
                THEN /\ pc' = "done"
                     /\ ret' = Some([TimeVals |-> res.TimeVals, DataVals |-> res.DataVals])
                ELSE /\ pc' = "raised"
                     /\ ret' = None
    /\ UNCHANGED <<rows, heartbeat, replayers, elem_path, time_range, fetched,
                   tick, data_blob, calls, other, utiliz, deser, replayer, view, hier>>

(***************************************************************************)
(* Inputs: the records a producer writes, and the traces built of them.    *)
(***************************************************************************)
\* The bytes of a Pkt (seq: uint16_t, op: uint8_t) and of a Big (4 x uint32_t).
PktBytes(seq, op) == ToBytes(seq, 2) \o ToBytes(op, 1)
BigBytes(a, d) == ToBytes(a, 4) \o ToBytes(a + 1, 4) \o ToBytes(0, 4) \o ToBytes(d, 4)

S1 == PktBytes(1, 7)
S2 == PktBytes(300, 2)
S3 == PktBytes(515, 9)
B1 == BigBytes(5, 70000)
B2 == BigBytes(66000, 3)

\* The records of each element, as the byte layout of the trace defines them.
PodValue(cid, v) ==
    Rec(cid, "VALUE", <<ToBytes(v, ElemNumBytes(cid))>>, <<>>, ToBytes(v, ElemNumBytes(cid)))
StructValue(cid, s) == Rec(cid, "VALUE", <<s>>, <<>>, s)
StructWrite(cid, s) == Rec(cid, "WRITE", <<s>>, <<>>, <<WRITE>> \o s)
StructCarry(cid) == Rec(cid, "CARRY", <<>>, <<>>, <<ScalarCARRY>>)
QueueFull(cid, ss) ==
    Rec(cid, "FULL", ss, <<>>, <<FULL>> \o ToBytes(Len(ss), 2) \o Concat(ss))
QueueArrive(cid, s) == Rec(cid, "ARRIVE", <<s>>, <<>>, <<ARRIVE>> \o s)
QueueDepart(cid) == Rec(cid, "DEPART", <<>>, <<>>, <<DEPART>>)
QueueBookends(cid, s) == Rec(cid, "BOOKENDS", <<s>>, <<>>, <<BOOKENDS>> \o s)
QueueChange(cid, idx, s) ==
    Rec(cid, "CHANGE", <<s>>, <<idx>>, <<CHANGE>> \o ToBytes(idx, 2) \o s)
QueueCarry(cid) == Rec(cid, "CARRY", <<>>, <<>>, <<CARRY>>)
\* A sparse dump: valid_count, the bucket indices, the structs.
SparseDump(cid, idxs, ss) ==
    Rec(cid, "DUMP", ss, idxs,
        ToBytes(Len(idxs), 2)
                     \o Concat([i \in DOMAIN idxs |-> ToBytes(idxs[i], 2)])
                     \o Concat(ss))
\* A record whose first byte is no action of the element's replayer.
BadTag(cid, tag) == Rec(cid, "BADTAG", <<>>, <<>>, <<tag>> \o S1)

\* The tick of the k-th row: 0, 1, 3, 4, ... (tick 2 is never recorded).
TickAt(k) == IF k <= 2 THEN k - 1 ELSE k

\* Every second row is stored compressed.
Row(k, recs) == [Tick |-> TickAt(k), Recs |-> recs, IsCompressed |-> (k % 2 = 0)]

\* The traces of MaxRows rows whose k-th row holds one of the blobs of Blobs.
TracesOf(Blobs) == {[k \in 1..MaxRows |-> Row(k, f[k])] : f \in [1..MaxRows -> Blobs]}

\* The bounds a caller may pass: -1 (unbounded), every tick up to the last
\* one, and one beyond.
QueryBounds == -1..(TickAt(MaxRows) + 1)

\* No call has been made from a second thread.
NoCall == [pc |-> "idle", elem_path |-> "", time_range |-> None, ret |-> None,
           during |-> FALSE]

\* __init__: self._cached_utiliz_sizes = {}; self._cached_utiliz_time_val = None
NoSizes == [cached_time_val |-> None, cached_sizes |-> EmptyDict,
            time_val |-> None, ret |-> None]

\* The StructDeserializer of struct_name before any call, every field
\* displayed.
NewDeserializer(struct_name) ==
    [struct_name |-> struct_name, displayed_columns |-> DisplayedColumns(struct_name),
     data_blob |-> <<>>, res |-> None]

NoDeserialize == NewDeserializer("Pkt")

InitRetriever(Traces, Heartbeats) ==
    /\ rows \in Traces
    /\ heartbeat \in Heartbeats
    /\ replayers = NewReplayers
    /\ pc = "idle"
    /\ elem_path = ""
    /\ time_range = None
    /\ fetched = <<>>
    /\ tick = NoTick
    /\ data_blob = <<>>
    /\ ret = None
    /\ calls = 0
    /\ other = NoCall
    /\ utiliz = NoSizes

\* PODReplayer(dtype) / ScalarStructReplayer(struct_name, struct_num_bytes) as
\* __init__ builds it for a CollectableTreeNodes row, no Replay call made yet.
NewReplayer(kind, num_bytes, is_auto_collected) ==
    [kind |-> kind, num_bytes |-> num_bytes, is_auto_collected |-> is_auto_collected,
     st |-> ScalarReset(Blank), tick |-> NoTick, data_blob |-> <<>>, res |-> None]

NoReplay == NewReplayer("pod", NUM_BYTES_MAP("uint32_t"), FALSE)

\* ViewSettings.__init__
NewViewSettings ==
    [dirty |-> FALSE, dirty_reasons |-> {}, view_file |-> None, dlg |-> "none",
     since |-> {}, raised |-> FALSE]

\* No SimHierarchy under test.
NoHierarchy ==
    [nodes |-> <<>>, root_id |-> None, elem_paths_by_id |-> <<>>,
     elem_ids_by_path |-> <<>>, call |-> None]

InitWith(Traces, Heartbeats) ==
    /\ InitRetriever(Traces, Heartbeats)
    /\ deser = NoDeserialize
    /\ replayer = NoReplay
    /\ view = NewViewSettings
    /\ hier = NoHierarchy

(***************************************************************************)
(* SpecContig: traces of a contiguous container, one record per tick.      *)
(***************************************************************************)
ContigRecords ==
    {QueueFull(3, <<>>), QueueFull(3, <<S1>>), QueueFull(3, <<S1, S2>>),
     QueueArrive(3, S2), QueueArrive(3, S3), QueueDepart(3), QueueBookends(3, S3),
     QueueChange(3, 0, S3), QueueChange(3, 1, S3), QueueCarry(3)}

ContigBlobs == {<<r>> : r \in ContigRecords} \cup {<<PodValue(1, 7)>>}

ContigQueries ==
    {None} \cup {<<lo, TickAt(MaxRows)>> : lo \in 0..TickAt(MaxRows)}

InitContig == InitWith(TracesOf(ContigBlobs), {1})

NextContig ==
    \/ \E tr \in ContigQueries : UnpackBegin("top.queue", tr)
    \/ FetchRow
    \/ ReplayRecord
    \/ UnpackReturn

SpecContig == InitContig /\ [][NextContig]_vars

(***************************************************************************)
(* What the current call has replayed, read off the trace.                 *)
(***************************************************************************)
\* The query of the current call.
CurrentQuery ==
    IF time_range = None THEN [ok |-> TRUE, start |-> None]
    ELSE BuildQuery(rows, heartbeat, time_range)

\* The rows the current call has taken so far.
ScannedRows ==
    SelectSeq(FetchAll(rows, time_range, CurrentQuery), LAMBDA r : r.Tick <= tick)

\* The row of tick t.
RowOfTick(t) == rows[CHOOSE i \in DOMAIN rows : rows[i].Tick = t]

\* The records of the row being replayed.
CurrentRecs == RowOfTick(tick).Recs

\* The position in the current row of the record the while loop is about to
\* dispatch: data_blob is the encoding of the records from Pos on.  0 when
\* the loop is not in a blob or the cursor is on no record boundary.
Pos ==
    IF pc = "blob"
       /\ \E k \in DOMAIN CurrentRecs :
             EncodeBlob(SubSeq(CurrentRecs, k, Len(CurrentRecs))) = data_blob
    THEN CHOOSE k \in DOMAIN CurrentRecs :
             EncodeBlob(SubSeq(CurrentRecs, k, Len(CurrentRecs))) = data_blob
    ELSE 0

\* The record about to be dispatched (when Pos > 0).
CurrentRec == CurrentRecs[Pos]

\* The element's replayer reads an action tag.
IsTagged(cid) ==
    \/ CollectableTreeNodes[cid].kind = "contig"
    \/ /\ CollectableTreeNodes[cid].kind \in {"pod", "struct"}
       /\ ElemNumBytes(cid) >= 16
       /\ cid \in auto_collected_cids

\* The records of collectable cid in the rows rs, in replay order.
RECURSIVE RecsOf(_, _)
RecsOf(cid, rs) ==
    IF Len(rs) = 0 THEN <<>>
    ELSE SelectSeq(Head(rs).Recs, LAMBDA r : r.cid = cid) \o RecsOf(cid, Tail(rs))

CountKind(recs, kind) == Cardinality({i \in DOMAIN recs : recs[i].kind = kind})

\* The index of the last FULL among recs, 0 when there is none.
LastFull(recs) ==
    LET fulls == {i \in DOMAIN recs : recs[i].kind = "FULL"}
    IN  IF fulls = {} THEN 0 ELSE CHOOSE i \in fulls : \A j \in fulls : j <= i

\* recs is a FULL followed by ARRIVE and DEPART records only, each DEPART
\* finding the list non-empty.
FifoRun(recs) ==
    /\ Len(recs) >= 1
    /\ recs[1].kind = "FULL"
    /\ \A i \in 2..Len(recs) : recs[i].kind \in {"ARRIVE", "DEPART"}
    /\ \A i \in 2..Len(recs) :
          recs[i].kind = "DEPART" =>
             Len(recs[1].structs) + CountKind(SubSeq(recs, 2, i - 1), "ARRIVE")
                - CountKind(SubSeq(recs, 2, i - 1), "DEPART") >= 1

\* Everything that ever entered the list during a FIFO run, in arrival order.
Arrived(recs) == Concat([i \in DOMAIN recs |-> recs[i].structs])

\* C3 (queue FIFO invariant): between two rows, when the container's records
\* replayed since (and including) its last FULL are a FULL with initial_length
\* structs followed by N ARRIVE and M DEPART records, every DEPART finding the
\* list non-empty, the live list and the entry of the tick just replayed are
\* the arrival sequence without its M oldest elements: the length is
\* initial_length + N - M, the order is the arrival order and the oldest
\* surviving element is at index 0.
C3_QueueFifo ==
    \A cid \in {c \in CollectableIDs : CollectableTreeNodes[c].kind = "contig"} :
        LET recs == RecsOf(cid, ScannedRows)
            run == SubSeq(recs, LastFull(recs), Len(recs))
            N == CountKind(run, "ARRIVE")
            M == CountKind(run, "DEPART")
            survivors == SubSeq(Arrived(run), M + 1, Len(Arrived(run)))
        IN  (pc = "rows" /\ LastFull(recs) > 0 /\ FifoRun(run)) =>
               /\ replayers[cid].values = Some(survivors)
               /\ Len(replayers[cid].values[1]) = Len(run[1].structs) + N - M
               /\ (RecsOf(cid, <<ScannedRows[Len(ScannedRows)]>>) # <<>>
                   => replayers[cid].values_by_tick[tick] = survivors)

\* C3's case: FULL [S1, S2], ARRIVE S3, DEPART has been replayed and the list
\* is [S2, S3].
C3_Witness ==
    /\ pc = "rows"
    /\ LET recs == RecsOf(3, ScannedRows)
       IN  /\ Len(recs) = 3
           /\ recs[1].kind = "FULL" /\ recs[1].structs = <<S1, S2>>
           /\ recs[2].kind = "ARRIVE" /\ recs[2].structs = <<S3>>
           /\ recs[3].kind = "DEPART"
    /\ replayers[3].values = Some(<<S2, S3>>)
    /\ replayers[3].values_by_tick[TickAt(1)] = <<S1, S2>>
    /\ replayers[3].values_by_tick[TickAt(2)] = <<S1, S2, S3>>
    /\ replayers[3].values_by_tick[TickAt(3)] = <<S2, S3>>

(***************************************************************************)
(* SpecTagged: traces of the action-tagged struct and of the contiguous    *)
(* container, one record per tick, records with an undefined tag included. *)
(***************************************************************************)
TaggedRecords ==
    {StructWrite(2, B1), StructWrite(2, B2), StructCarry(2), BadTag(2, 2),
     QueueFull(3, <<S1>>), QueueArrive(3, S2), QueueCarry(3), BadTag(3, 6)}

TaggedBlobs == {<<r>> : r \in TaggedRecords}

TaggedQueries ==
    {None} \cup {<<lo, TickAt(MaxRows)>> : lo \in 0..TickAt(MaxRows)}

InitTagged == InitWith(TracesOf(TaggedBlobs), {1})

NextTagged ==
    \/ \E path \in {"top.big", "top.queue"}, tr \in TaggedQueries : UnpackBegin(path, tr)
    \/ FetchRow
    \/ ReplayRecord
    \/ UnpackReturn

SpecTagged == InitTagged /\ [][NextTagged]_vars

\* The records of cid that the current call replayed before the one it is
\* about to dispatch.
ReplayedBefore(cid) ==
    RecsOf(cid, SelectSeq(ScannedRows, LAMBDA r : r.Tick < tick))
       \o SelectSeq(SubSeq(CurrentRecs, 1, Pos - 1), LAMBDA r : r.cid = cid)

\* The element has a WRITE / FULL earlier in the current query.
HasPriorValue(cid) ==
    \E i \in DOMAIN ReplayedBefore(cid) : ReplayedBefore(cid)[i].kind \in {"WRITE", "FULL"}

\* The greatest key of values_by_tick below t.
LatestBelow(values_by_tick, t) ==
    CHOOSE u \in DOMAIN values_by_tick :
        /\ u < t
        /\ \A w \in DOMAIN values_by_tick : w < t => w <= u

\* C2 (carry-forward invariant): for an action-tagged scalar/struct element,
\* whenever the record replayed at tick t is a CARRY, the history holds an
\* earlier entry and the entry stored for t equals the entry of the greatest
\* tick below t that has one.
C2_CarryForward ==
    \A cid \in {c \in CollectableIDs :
                   IsTagged(c) /\ CollectableTreeNodes[c].kind \in {"pod", "struct"}} :
        \A t \in DOMAIN replayers[cid].values_by_tick :
            (\E i \in DOMAIN RowOfTick(t).Recs :
                 RowOfTick(t).Recs[i].cid = cid /\ RowOfTick(t).Recs[i].kind = "CARRY")
            => /\ \E u \in DOMAIN replayers[cid].values_by_tick : u < t
               /\ replayers[cid].values_by_tick[t] =
                     replayers[cid].values_by_tick[
                         LatestBelow(replayers[cid].values_by_tick, t)]

\* C2's case: WRITE B1, WRITE B2, CARRY at three ticks; the third entry is B2.
C2_Witness ==
    /\ pc = "rows"
    /\ DOMAIN replayers[2].values_by_tick = {TickAt(1), TickAt(2), TickAt(3)}
    /\ RowOfTick(TickAt(1)).Recs = <<StructWrite(2, B1)>>
    /\ RowOfTick(TickAt(2)).Recs = <<StructWrite(2, B2)>>
    /\ RowOfTick(TickAt(3)).Recs = <<StructCarry(2)>>
    /\ replayers[2].values_by_tick[TickAt(3)] = B2

\* The while loop is about to dispatch a CARRY of an element that has no
\* WRITE / FULL earlier in the current query.
CarryWithoutValue ==
    /\ Pos > 0
    /\ CurrentRec.kind = "CARRY"
    /\ IsTagged(CurrentRec.cid)
    /\ ~HasPriorValue(CurrentRec.cid)

UndefinedTag ==
    /\ Pos > 0
    /\ CurrentRec.kind = "BADTAG"
    /\ IsTagged(CurrentRec.cid)
    /\ CurrentRec.body[1] \notin
          (IF CollectableTreeNodes[CurrentRec.cid].kind = "contig"
           THEN ContigActions ELSE ScalarActions)

\* C10 (undefined action tag): a record whose tag byte is outside the defined
\* set raises an error that aborts the Unpack call; no history entry is
\* written (every replayer is left as it was), nothing of the record is
\* consumed (the cursor stays behind the collectable id) and the call returns
\* nothing.
C10_UndefinedTagAborts ==
    [][UndefinedTag =>
          /\ pc' = "raised"
          /\ replayers' = replayers
          /\ data_blob' = SliceFrom(data_blob, 2)
          /\ ret' = None]_vars

\* C10's case: the call has raised on a struct record with tag 2, after a
\* WRITE of the same element had stored a value.
C10_Witness ==
    /\ pc = "raised"
    /\ tick = TickAt(2)
    /\ RowOfTick(TickAt(1)).Recs = <<StructWrite(2, B1)>>
    /\ RowOfTick(TickAt(2)).Recs = <<BadTag(2, 2)>>
    /\ data_blob = BadTag(2, 2).body
    /\ DOMAIN replayers[2].values_by_tick = {TickAt(1)}

(***************************************************************************)
(* Unpack as one function of the trace and its arguments: what a call      *)
(* returns on a DataRetriever that has just been constructed.              *)
(***************************************************************************)
\* The while loop over one blob: [ok, reps].
RECURSIVE ReplayBlob(_, _, _)
ReplayBlob(reps, t, blob) ==
    LET u == StructUnpack(2, Slice(blob, 0, 2))
        rest == SliceFrom(blob, 2)
    IN  IF ~u.ok \/ u.val \notin CollectableIDs THEN [ok |-> FALSE, reps |-> reps]
        ELSE LET r == Replay(u.val, reps[u.val], t, rest)
                 reps2 == [reps EXCEPT ![u.val] = r.st]
             IN  IF ~r.ok THEN [ok |-> FALSE, reps |-> reps2]
                 ELSE IF r.n = 0 \/ Len(SliceFrom(rest, r.n)) = 0
                 THEN [ok |-> TRUE, reps |-> reps2]
                 ELSE ReplayBlob(reps2, t, SliceFrom(rest, r.n))

\* The for loop over the fetched rows: [ok, reps].
RECURSIVE ReplayRows(_, _)
ReplayRows(reps, rs) ==
    IF Len(rs) = 0 THEN [ok |-> TRUE, reps |-> reps]
    ELSE LET row == Head(rs)
             z == IF row.IsCompressed THEN ZlibDecompress(RowData(row))
                  ELSE [ok |-> TRUE, val |-> RowData(row)]
             b == ReplayBlob(reps, row.Tick, z.val)
         IN  IF ~z.ok THEN [ok |-> FALSE, reps |-> reps]
             ELSE IF ~b.ok THEN b
             ELSE ReplayRows(b.reps, Tail(rs))

\* Unpack(path, tr_arg) on a new DataRetriever over the rows rs with
\* heartbeat hb: [ok, ret].
UnpackOf(rs, hb, path, tr_arg) ==
    LET tr == NormalizeRange(tr_arg)
        q == IF tr = None THEN [ok |-> TRUE, start |-> None] ELSE BuildQuery(rs, hb, tr)
        failed == [ok |-> FALSE, ret |-> None]
    IN  IF ~q.ok THEN failed
        ELSE LET r == ReplayRows(ResetAll(NewReplayers), FetchAll(rs, tr, q))
             IN  IF ~r.ok \/ path \notin ElemPaths THEN failed
                 ELSE LET cid == CidOfPath(path)
                          res == CollectResult(cid, r.reps[cid].values_by_tick,
                                     SortedSeq(DOMAIN r.reps[cid].values_by_tick), tr)
                      IN  IF ~res.ok THEN failed
                          ELSE [ok |-> TRUE,
                                ret |-> Some([TimeVals |-> res.TimeVals,
                                              DataVals |-> res.DataVals])]

(***************************************************************************)
(* Spec: traces whose blobs multiplex the records of several elements.     *)
(***************************************************************************)
MuxBlobs ==
    {<<PodValue(1, 7), StructWrite(2, B1), QueueFull(3, <<S1, S2>>),
       SparseDump(4, <<0>>, <<S1>>), StructValue(5, S2)>>,
     <<StructCarry(2), QueueArrive(3, S3), SparseDump(4, <<1>>, <<S2>>)>>,
     <<QueueDepart(3), PodValue(1, 9)>>,
     <<QueueCarry(3), StructCarry(2), SparseDump(4, <<>>, <<>>)>>,
     <<QueueBookends(3, S3), StructWrite(2, B2)>>,
     <<QueueChange(3, 0, S3), SparseDump(4, <<1, 0>>, <<S2, S1>>)>>}

MuxQueries ==
    {None} \cup {<<lo, TickAt(MaxRows)>> : lo \in 0..TickAt(MaxRows)}
           \cup {<<TickAt(MaxRows)>>}

Init == InitWith(TracesOf(MuxBlobs), {1})

Next ==
    \/ \E path \in ElemPaths, tr \in MuxQueries : UnpackBegin(path, tr)
    \/ FetchRow
    \/ ReplayRecord
    \/ UnpackReturn

Spec == Init /\ [][Next]_vars

\* The bytes of the current row's records from the k-th on.
Encoded(k) == EncodeBlob(SubSeq(CurrentRecs, k, Len(CurrentRecs)))

\* C7 (byte-consumption exactness): in every pass of the demultiplexing loop
\* that returns, the cursor stands on a record boundary and moves to the next
\* one, the two id bytes and the replayer's byte count being the record's
\* length; after the last record the loop ends with nothing left over, and
\* it ends at no earlier record.
C7_CursorExact ==
    [][(pc = "blob" /\ pc' # "raised") =>
          /\ Pos > 0
          /\ IF Pos < Len(CurrentRecs)
             THEN pc' = "blob" /\ data_blob' = Encoded(Pos + 1)
             ELSE pc' = "rows" /\ data_blob' = <<>>]_vars

\* A row of five records, one of every replayer kind, has been consumed to
\* its end.
C7_Witness ==
    /\ pc = "rows"
    /\ tick # NoTick
    /\ data_blob = <<>>
    /\ Len(CurrentRecs) = 5
    /\ \A c \in CollectableIDs : tick \in DOMAIN replayers[c].values_by_tick

\* A delta record of a contiguous container.
IsDelta(rec) ==
    /\ CollectableTreeNodes[rec.cid].kind = "contig"
    /\ rec.kind \in {"ARRIVE", "DEPART", "BOOKENDS", "CHANGE", "CARRY"}

\* The bytes the pass took off the blob are those of the record dispatched.
ConsumedRecord == Len(data_blob) - Len(data_blob') = Len(EncodeRec(CurrentRec))

\* C8 as stated: every Replay call that returns leaves an entry for the tick
\* in the replayer's history and returns the number of bytes it consumed.
C8_ReplayAlwaysStores ==
    [][(pc = "blob" /\ Pos > 0 /\ pc' # "raised") =>
          /\ ConsumedRecord
          /\ tick \in DOMAIN replayers'[CurrentRec.cid].values_by_tick]_vars

\* C8 as amended: every Replay call that returns has consumed the bytes of
\* its record, and leaves an entry for the tick in the replayer's history
\* unless the record is a delta of a contiguous container replayed before any
\* FULL of that container in the current query: such a record is consumed
\* and the replayer is left as it was.
C8_ReplayStoresAfterFull ==
    [][(pc = "blob" /\ Pos > 0 /\ pc' # "raised") =>
          /\ ConsumedRecord
          /\ IF IsDelta(CurrentRec) /\ ~HasPriorValue(CurrentRec.cid)
             THEN UNCHANGED replayers
             ELSE tick \in DOMAIN replayers'[CurrentRec.cid].values_by_tick]_vars

\* A row holding a delta of the queue and a scalar value has been replayed to
\* its end: the scalar has its entry, the queue has none.
C8_Witness ==
    /\ pc = "rows"
    /\ tick # NoTick
    /\ data_blob = <<>>
    /\ \E i \in DOMAIN CurrentRecs : IsDelta(CurrentRecs[i]) /\ CurrentRecs[i].cid = 3
    /\ \E i \in DOMAIN CurrentRecs : CurrentRecs[i].cid = 1
    /\ tick \in DOMAIN replayers[1].values_by_tick
    /\ tick \notin DOMAIN replayers[3].values_by_tick

\* C5 (query isolation and determinism): whatever calls ran before on the
\* same DataRetriever, a call that returns returns what the same call returns
\* on a new DataRetriever over the same trace, a call that raises raises
\* there too, and every replayer's history is empty when the replay starts.
C5_QueryIsolation ==
    LET fresh == UnpackOf(rows, heartbeat, elem_path, time_range)
    IN  /\ pc = "done" => fresh.ok /\ ret = fresh.ret
        /\ pc = "raised" => ~fresh.ok
        /\ (pc = "rows" /\ tick = NoTick) =>
              \A c \in CollectableIDs : replayers[c].values_by_tick = EmptyDict

\* A second call on the same DataRetriever has returned the queue's values.
C5_Witness ==
    /\ calls >= 2
    /\ pc = "done"
    /\ elem_path = "top.queue"
    /\ ret # None
    /\ Len(ret[1].TimeVals) >= 2

(***************************************************************************)
(* SpecRange: every pair of bounds over traces in which the queue is       *)
(* recorded at some ticks and not at others.                               *)
(***************************************************************************)
RangeBlobs ==
    {<<QueueFull(3, <<S1>>)>>, <<QueueArrive(3, S2)>>, <<PodValue(1, 7)>>}

InitRange == InitWith(TracesOf(RangeBlobs), {1, 2})

NextRange ==
    \/ \E lo \in QueryBounds, hi \in QueryBounds : UnpackBegin("top.queue", <<lo, hi>>)
    \/ FetchRow
    \/ ReplayRecord
    \/ UnpackReturn

SpecRange == InitRange /\ [][NextRange]_vars

\* C6 (range filtering): a call Unpack(path, (lo, hi)) that returns returns
\* exactly the ticks of the element's history that lie in [lo, hi], in
\* strictly ascending order, and as many values as ticks, the i-th value
\* being the deserialized history entry of the i-th tick.
C6_RangeFilter ==
    (pc = "done" /\ Len(time_range) = 2) =>
        LET cid == CidOfPath(elem_path)
            history == replayers[cid].values_by_tick
            TimeVals == ret[1].TimeVals
            DataVals == ret[1].DataVals
        IN  /\ \A i \in DOMAIN TimeVals :
                  time_range[1] <= TimeVals[i] /\ TimeVals[i] <= time_range[2]
            /\ {TimeVals[i] : i \in DOMAIN TimeVals} =
                  {t \in DOMAIN history : time_range[1] <= t /\ t <= time_range[2]}
            /\ \A i, j \in DOMAIN TimeVals : i < j => TimeVals[i] < TimeVals[j]
            /\ Len(DataVals) = Len(TimeVals)
            /\ \A i \in DOMAIN TimeVals :
                  DataVals[i] = DeserializeEntry(cid, history[TimeVals[i]]).res

\* A call has returned two ticks while the history also holds a look-back
\* entry below the lower bound.
C6_Witness ==
    /\ pc = "done"
    /\ Len(time_range) = 2
    /\ time_range[1] >= 1
    /\ Len(ret[1].TimeVals) = 2
    /\ \E t \in DOMAIN replayers[3].values_by_tick : t < time_range[1]

(***************************************************************************)
(* SpecLookback: traces that keep the heartbeat promise.  Every row holds  *)
(* a record of each auto-collected element.                                *)
(***************************************************************************)
LookbackRows == MaxRows + 1

LookbackBlobs ==
    {<<s, q, d, StructValue(5, S1)>> :
        s \in {StructWrite(2, B1), StructCarry(2)},
        q \in {QueueFull(3, <<S1>>), QueueCarry(3)},
        d \in {SparseDump(4, <<0>>, <<S1>>), SparseDump(4, <<1>>, <<S2>>)}}

\* A record that holds the element's whole value.
IsWholeValue(rec) == rec.kind \in {"FULL", "WRITE", "VALUE", "DUMP"}

\* Every auto-collected element has a record holding its whole value in every
\* hb consecutive rows of rs.
HeartbeatHolds(rs, hb) ==
    \A c \in auto_collected_cids :
        \A i \in 1..Max(1, Len(rs) - hb + 1) :
            \E j \in i..Min(i + hb - 1, Len(rs)) :
                \E k \in DOMAIN rs[j].Recs :
                    rs[j].Recs[k].cid = c /\ IsWholeValue(rs[j].Recs[k])

LookbackTraces ==
    {[k \in 1..LookbackRows |-> Row(k, f[k])] : f \in [1..LookbackRows -> LookbackBlobs]}

InitLookback ==
    /\ InitWith(LookbackTraces, {1, 2})
    /\ HeartbeatHolds(rows, heartbeat)

NextLookback ==
    \/ \E path \in {"top.queue", "top.table"}, lo \in {TickAt(k) : k \in 1..LookbackRows} :
          UnpackBegin(path, <<lo, TickAt(LookbackRows)>>)
    \/ FetchRow
    \/ ReplayRecord
    \/ UnpackReturn

SpecLookback == InitLookback /\ [][NextLookback]_vars

\* C1 (look-back correctness) as stated: on a trace that keeps the heartbeat
\* promise, a call Unpack(path, (b, hi)) whose replay of the whole trace
\* from the first tick returns does not raise, and returns what that replay
\* returns.
C1_LookbackEqualsWholeReplay ==
    LET whole == UnpackOf(rows, Len(rows), elem_path, time_range)
    IN  (Len(time_range) = 2 /\ time_range[1] >= 0 /\ whole.ok) =>
            /\ pc # "raised"
            /\ pc = "done" => ret = whole.ret

\* The dump of the sparse container in the row of tick t.
DumpAt(t) ==
    LET recs == SelectSeq(RowOfTick(t).Recs, LAMBDA r : r.kind = "DUMP")
    IN  recs[1]

\* C4 (sparse bucket invariant) as stated: the history entry stored for the
\* tick of a dump of k distinct buckets has exactly k non-empty buckets, each
\* struct of the dump at its bucket index.
C4_SparseBuckets ==
    \A t \in DOMAIN replayers[4].values_by_tick :
        LET d == DumpAt(t)
            entry == replayers[4].values_by_tick[t]
        IN  (\A i, j \in DOMAIN d.idxs : i # j => d.idxs[i] # d.idxs[j]) =>
                /\ Cardinality({b \in DOMAIN entry : entry[b] # None}) = Len(d.idxs)
                /\ \A i \in DOMAIN d.idxs : entry[d.idxs[i] + 1] = Some(d.structs[i])

(***************************************************************************)
(* SpecMalformed: traces in which a record's payload may be shorter than   *)
(* its declared width.                                                     *)
(***************************************************************************)
\* The record rec with only the first n bytes of its payload written.
Short(rec, n) == [rec EXCEPT !.kind = "SHORT", !.body = SubSeq(rec.body, 1, n)]

MalformedBlobs ==
    {<<QueueFull(3, <<S1>>), Short(StructValue(5, S2), 2)>>,
     <<Short(QueueFull(3, <<S1, S2>>), 7)>>,
     <<Short(PodValue(1, 7), 2)>>,
     <<Short(SparseDump(4, <<0>>, <<S1>>), 5)>>,
     <<PodValue(1, 7), QueueArrive(3, S2)>>,
     <<QueueFull(3, <<S1>>)>>}

MalformedQueries == {None, <<TickAt(MaxRows)>>}

InitMalformed == InitWith(TracesOf(MalformedBlobs), {1})

NextMalformed ==
    \/ \E path \in {"top.queue", "top.table"}, tr \in MalformedQueries :
          UnpackBegin(path, tr)
    \/ FetchRow
    \/ ReplayRecord
    \/ UnpackReturn

SpecMalformed == InitMalformed /\ [][NextMalformed]_vars

\* A row holding a record whose payload is shorter than its declared width.
IsMalformedRow(row) == \E i \in DOMAIN row.Recs : row.Recs[i].kind = "SHORT"

\* C11 (no partial results) as stated: a call that has scanned a malformed
\* tick blob, whichever element the short record belongs to, does not return
\* a result.
C11_MalformedAborts ==
    pc = "done" =>
        \A i \in DOMAIN ScannedRows : ~IsMalformedRow(ScannedRows[i])

\* The rows of the trace whose tick the current call's range admits.
RowsInRange == SelectSeq(rows, LAMBDA r : InRange(r.Tick, time_range))

\* The position of tick t in the returned TimeVals, 0 when it is not there.
ReturnedAt(t) ==
    LET at == {i \in DOMAIN ret[1].TimeVals : ret[1].TimeVals[i] = t}
    IN  IF at = {} THEN 0 ELSE CHOOSE i \in at : TRUE

\* The scanned rows replay without an error.
ReplayCompletes ==
    /\ CurrentQuery.ok
    /\ ReplayRows(ResetAll(NewReplayers),
                  FetchAll(rows, time_range, CurrentQuery)).ok

\* The values of the scalar cid that rs records, in tick order.
RECURSIVE ScalarValuesOf(_, _)
ScalarValuesOf(cid, rs) ==
    IF Len(rs) = 0 THEN <<>>
    ELSE LET recs == RecsOf(cid, <<Head(rs)>>)
         IN  IF recs = <<>> THEN ScalarValuesOf(cid, Tail(rs))
             ELSE <<[tick |-> Head(rs).Tick,
                     val |-> LittleEndian(recs[Len(recs)].structs[1])]>>
                  \o ScalarValuesOf(cid, Tail(rs))

\* C12 (scalar element) as stated: a call for the scalar element top.count
\* (uint32, not auto-collected) whose scanned rows replay without an error
\* completes and returns, for each tick in range that records the scalar, the
\* tick and the value written at it.
C12_ScalarValues ==
    (elem_path = "top.count" /\ pc \in {"done", "raised"} /\ ReplayCompletes) =>
        LET written == ScalarValuesOf(1, RowsInRange)
        IN  /\ pc = "done"
            /\ ret = Some([TimeVals |-> [i \in DOMAIN written |-> written[i].tick],
                           DataVals |-> [i \in DOMAIN written |-> written[i].val]])

check_same_thread_Off(thread) == TRUE

check_same_thread(thread) == thread = "main"

\* Unpack called from the second thread: the statement is built, then
\* cursor.execute either raises or lets the call go on to reset the
\* replayers, which are those of every call on this DataRetriever.
UnpackOnWorker(path, tr_arg) ==
    /\ other.pc \in {"idle", "raised"}
    /\ IF check_same_thread("worker")
       THEN /\ replayers' = ResetAll(replayers)
            /\ other' = [pc |-> "rows", elem_path |-> path,
                         time_range |-> NormalizeRange(tr_arg), ret |-> None,
                         during |-> (pc \in {"rows", "blob"})]
       ELSE /\ other' = [pc |-> "raised", elem_path |-> path,
                         time_range |-> NormalizeRange(tr_arg), ret |-> None,
                         during |-> (pc \in {"rows", "blob"})]
            /\ UNCHANGED replayers
    /\ UNCHANGED <<rows, heartbeat, pc, elem_path, time_range, fetched, tick,
                   data_blob, ret, calls, utiliz, deser, replayer, view, hier>>

ConcurrentBlobs ==
    {<<QueueFull(3, <<S1>>)>>, <<QueueArrive(3, S2)>>, <<QueueDepart(3)>>}

InitConcurrent == InitWith(TracesOf(ConcurrentBlobs), {1})

NextConcurrent ==
    \/ \E tr \in {None, <<TickAt(MaxRows)>>} : UnpackBegin("top.queue", tr)
    \/ FetchRow
    \/ ReplayRecord
    \/ UnpackReturn
    \/ UnpackOnWorker("top.queue", None)

SpecConcurrent == InitConcurrent /\ [][NextConcurrent]_vars

PathBlobs ==
    {<<QueueFull(3, <<S1>>)>>, <<QueueArrive(3, S2)>>, <<StructCarry(2)>>}

PathQueries == {None, <<TickAt(MaxRows)>>, <<TickAt(MaxRows) + 1>>}

InitPaths == InitWith(TracesOf(PathBlobs), {1})

NextPaths ==
    \/ \E path \in {"top.queue", "top.nothing"}, tr \in PathQueries :
          UnpackBegin(path, tr)
    \/ FetchRow
    \/ ReplayRecord
    \/ UnpackReturn

SpecPaths == InitPaths /\ [][NextPaths]_vars

\* A call is being started.
CallStarts == pc \in {"idle", "done", "raised"}

\* C15 as stated: a call for a path that resolves to no tracked element fails
\* at once, before any replayer is reset or any tick record is replayed.
C15_UnknownPathFailsFirst ==
    [][(CallStarts /\ elem_path' \notin ElemPaths) =>
          pc' = "raised" /\ UNCHANGED replayers]_vars

\* C15 as amended: a call for a path that resolves to no tracked element
\* never returns a result, but the path is looked up last: when the query
\* can be executed the call resets every replayer and scans the selected
\* rows as any call does, and it fails for the path once all of them have
\* been replayed (unless the replay has failed before).
C15_UnknownPathFailsLast ==
    /\ [](elem_path \notin ElemPaths => pc # "done" /\ ret = None)
    /\ [][elem_path' \notin ElemPaths =>
             /\ (CallStarts /\ CurrentQuery'.ok) =>
                   /\ pc' = "rows"
                   /\ replayers' = ResetAll(replayers)
                   /\ fetched' = FetchAll(rows, time_range', CurrentQuery')
             /\ (pc = "rows" /\ fetched = <<>>) => pc' = "raised"]_vars

\* A call for an unknown path has failed after replaying every row: the
\* queue's history holds an entry for each tick.
C15_Witness ==
    /\ pc = "raised"
    /\ elem_path = "top.nothing"
    /\ fetched = <<>>
    /\ data_blob = <<>>
    /\ DOMAIN replayers[3].values_by_tick = {TickAt(k) : k \in 1..MaxRows}

(***************************************************************************)
(* SpecSizes: the utilization query.                                       *)
(***************************************************************************)
\* SimHierarchy.GetContainerIDs: the contiguous and the sparse containers.
GetContainerIDs ==
    {c \in CollectableIDs : CollectableTreeNodes[c].kind \in {"contig", "sparse"}}

\* DataRetriever.GetIterableSizesByCollectionID(time_val).  Nothing assigns
\* the two cache fields after __init__.
GetIterableSizesByCollectionID(time_val) ==
    /\ utiliz' = [utiliz EXCEPT
                    !.time_val = Some(time_val),
                    !.ret = Some(IF utiliz.cached_time_val # None
                                    /\ time_val = utiliz.cached_time_val[1]
                                 THEN utiliz.cached_sizes
                                 ELSE [id \in GetContainerIDs |-> 0])]
    /\ UNCHANGED <<rows, heartbeat, replayers, pc, elem_path, time_range, fetched,
                   tick, data_blob, ret, calls, other, deser, replayer, view, hier>>

SizesBlobs ==
    {<<QueueFull(3, <<S1, S2>>), SparseDump(4, <<0>>, <<S1>>)>>,
     <<QueueFull(3, <<>>), SparseDump(4, <<>>, <<>>)>>,
     <<QueueArrive(3, S3), SparseDump(4, <<1>>, <<S2>>)>>,
     <<QueueCarry(3), SparseDump(4, <<0, 1>>, <<S1, S2>>)>>,
     <<PodValue(1, 7)>>}

InitSizes == InitWith(TracesOf(SizesBlobs), {1})

NextSizes == \E k \in 1..MaxRows : GetIterableSizesByCollectionID(TickAt(k))

SpecSizes == InitSizes /\ [][NextSizes]_vars

\* The number of elements that a history entry of container c holds.
SizeOfEntry(c, entry) ==
    IF CollectableTreeNodes[c].kind = "contig" THEN Len(entry)
    ELSE Cardinality({b \in DOMAIN entry : entry[b] # None})

\* The histories that a replay of the trace up to tick t builds.
ReplayedUpTo(t) ==
    ReplayRows(ResetAll(NewReplayers), SelectSeq(rows, LAMBDA r : r.Tick <= t))

\* C16 as stated: the sizes returned for a tick are, for every container,
\* the number of elements the container holds at that tick as reconstructed
\* by replay.
C16_SizesFromReplay ==
    utiliz.ret # None =>
        LET t == utiliz.time_val[1]
            r == ReplayedUpTo(t)
        IN  \A c \in GetContainerIDs :
                (r.ok /\ t \in DOMAIN r.reps[c].values_by_tick) =>
                    /\ c \in DOMAIN utiliz.ret[1]
                    /\ utiliz.ret[1][c] = SizeOfEntry(c, r.reps[c].values_by_tick[t])

(***************************************************************************)
(* SpecDeser: a StructDeserializer called on byte windows of several       *)
(* lengths under every setting of the displayed columns.                   *)
(***************************************************************************)
\* DataRetriever.SetVisibleFieldNames for the deserializer's struct.
SetVisibleFieldNames(field_names) ==
    /\ deser.displayed_columns # field_names
    /\ deser' = [deser EXCEPT !.displayed_columns = field_names,
                              !.data_blob = <<>>, !.res = None]
    /\ UNCHANGED <<rows, heartbeat, replayers, pc, elem_path, time_range, fetched,
                   tick, data_blob, ret, calls, other, utiliz, replayer, view, hier>>

\* deserializer.Deserialize(blob)
Deserialize(blob) ==
    /\ deser' = [deser EXCEPT
                   !.data_blob = blob,
                   !.res = Some(StructDeserializer_Deserialize(
                                   deser.struct_name, blob, deser.displayed_columns))]
    /\ UNCHANGED <<rows, heartbeat, replayers, pc, elem_path, time_range, fetched,
                   tick, data_blob, ret, calls, other, utiliz, replayer, view, hier>>

\* Byte windows of the struct's width, shorter and longer.
WindowsOf(struct_name) ==
    IF struct_name = "Pkt"
    THEN {S1, S2, S3, SubSeq(S2, 1, 2), SubSeq(S3, 1, 1), S2 \o <<9>>, S1 \o S3, <<>>}
    ELSE {B1, B2, SubSeq(B1, 1, 12), SubSeq(B2, 1, 15), SubSeq(B2, 1, 3), B1 \o <<1>>}

InitDeser ==
    /\ InitRetriever({<<>>}, {1})
    /\ \E struct_name \in DOMAIN StructFields : deser = NewDeserializer(struct_name)
    /\ replayer = NoReplay
    /\ view = NewViewSettings
    /\ hier = NoHierarchy

NextDeser ==
    \/ \E field_names \in SUBSET DisplayedColumns(deser.struct_name) :
          SetVisibleFieldNames(field_names)
    \/ \E blob \in WindowsOf(deser.struct_name) : Deserialize(blob)

SpecDeser == InitDeser /\ [][NextDeser]_vars

\* The offset of the i-th field of fields: the widths of the fields before it.
FieldOffset(fields, i) == SumFieldBytes(SubSeq(fields, 1, i - 1))

\* What the declared layout makes of a byte window under a visibility set:
\* the visible fields in declared order, each decoded from its own bytes.
DecodedFields(struct_name, blob, visible) ==
    LET fields == StructFields[struct_name]
        all == [i \in DOMAIN fields |->
                   [name |-> fields[i].name,
                    val |-> LittleEndian(Slice(blob, FieldOffset(fields, i),
                                               FieldOffset(fields, i)
                                                  + NUM_BYTES_MAP(fields[i].type)))]]
    IN  SelectSeq(all, LAMBDA e : e.name \in visible)

\* A call on a byte window of exactly the struct's width has been made.
DecodedWholeWindow ==
    /\ deser.res # None
    /\ Len(deser.data_blob) = struct_num_bytes(deser.struct_name)

\* C17 as stated: for every visibility set, Deserialize of a window of the
\* struct's width returns exactly the visible fields in declared order, each
\* with the value of its own bytes (a hidden field advances the offset).
C17_VisibleFields ==
    DecodedWholeWindow =>
        /\ deser.res[1].ok
        /\ deser.res[1].res =
              DecodedFields(deser.struct_name, deser.data_blob, deser.displayed_columns)

\* C17 as amended: the same for every visibility set that is not empty; with
\* an empty set the call fails on an assertion and returns no field map.
C17_VisibleFieldsNonEmpty ==
    DecodedWholeWindow =>
        IF deser.displayed_columns = {} THEN ~deser.res[1].ok
        ELSE /\ deser.res[1].ok
             /\ deser.res[1].res =
                   DecodedFields(deser.struct_name, deser.data_blob,
                                 deser.displayed_columns)

\* The last field alone is visible and has been decoded from behind three
\* hidden fields.
C17_Witness ==
    /\ deser.struct_name = "Big"
    /\ deser.displayed_columns = {"d"}
    /\ deser.data_blob = B1
    /\ deser.res = Some([ok |-> TRUE, res |-> <<[name |-> "d", val |-> 70000]>>])

\* C18 as stated: Deserialize of a window whose length differs from the
\* struct's width fails for every visibility set and returns no field map.
C18_WrongLengthFails ==
    (deser.res # None /\ Len(deser.data_blob) # struct_num_bytes(deser.struct_name)) =>
        ~deser.res[1].ok

(***************************************************************************)
(* The scan start of a call with a lower bound.                            *)
(***************************************************************************)
\* The 1-based position in the sorted tick list of the first tick >= lo
\* (0 when there is none).
FirstAtLeast(tv, lo) ==
    IF \E k \in DOMAIN tv : tv[k] >= lo
    THEN CHOOSE k \in DOMAIN tv :
             tv[k] >= lo /\ \A m \in DOMAIN tv : tv[m] >= lo => k <= m
    ELSE 0

\* The tick heartbeat positions before the first tick >= lo, clamped at the
\* first position of the list.
ScanStart(tv, lo, hb) == tv[Max(1, FirstAtLeast(tv, lo) - hb)]

\* A call with a lower bound lo >= 0 at or below the last tick is under way.
LowerBounded ==
    /\ pc \in {"rows", "blob", "done"}
    /\ time_range # None
    /\ time_range[1] >= 0
    /\ FirstAtLeast(time_vals(rows), time_range[1]) > 0

\* C19 (scan start): when a lower bound lo >= 0 is given and i is the index
\* of the first tick >= lo in the sorted tick list, the replay starts at the
\* tick at index max(0, i - heartbeat): the rows the call scans are those
\* from that tick on (up to the upper bound when one is given), the scan
\* start is a tick of the trace at or below the first tick >= lo, and no row
\* below the scan start is replayed, so no history entry lies below it.
C19_ScanStart ==
    /\ [](LowerBounded =>
            LET tv == time_vals(rows)
                i == FirstAtLeast(tv, time_range[1])
                scan_start == ScanStart(tv, time_range[1], heartbeat)
            IN  /\ scan_start \in {tv[k] : k \in DOMAIN tv}
                /\ scan_start <= tv[i]
                /\ i - heartbeat >= 1 => scan_start = tv[i - heartbeat]
                /\ i - heartbeat < 1 => scan_start = tv[1]
                /\ tick = NoTick \/ tick >= scan_start
                /\ \A k \in DOMAIN fetched : fetched[k].Tick >= scan_start
                /\ \A c \in CollectableIDs :
                       \A t \in DOMAIN replayers[c].values_by_tick : t >= scan_start)
    /\ [][(CallStarts /\ LowerBounded') =>
            LET scan_start == ScanStart(time_vals(rows), time_range'[1], heartbeat)
            IN  fetched' = SelectSeq(rows, LAMBDA r :
                               /\ r.Tick >= scan_start
                               /\ (time_range'[2] < 0 \/ r.Tick <= time_range'[2]))]_vars

\* A call with lower bound 3 has returned under heartbeat 1: the scan went
\* one position back to tick 1, which is in the history, and tick 0 is not.
C19_Witness ==
    /\ pc = "done"
    /\ heartbeat = 1
    /\ time_range = <<TickAt(3), TickAt(3)>>
    /\ DOMAIN replayers[3].values_by_tick = {TickAt(2), TickAt(3)}

(***************************************************************************)
(* The byte counts of the records of a contiguous container.               *)
(***************************************************************************)
\* The length of the payload of a contiguous-container record, from the
\* record alone: its kind and, for FULL, its element count.
ContigRecordBytes(rec, W) ==
    CASE rec.kind = "FULL" -> 3 + Len(rec.structs) * W
      [] rec.kind = "ARRIVE" -> 1 + W
      [] rec.kind = "DEPART" -> 1
      [] rec.kind = "BOOKENDS" -> 1 + W
      [] rec.kind = "CHANGE" -> 3 + W
      [] rec.kind = "CARRY" -> 1

\* States a contiguous replayer may be in: no list yet, and lists of one and
\* of two elements stored at the first tick.
ContigStates ==
    {Blank, ContigStore(Blank, TickAt(1), <<S1>>), ContigStore(Blank, TickAt(1), <<S1, S2>>)}

\* The loop is about to dispatch a record of a contiguous container.
AtContigRecord ==
    /\ pc = "blob"
    /\ Pos > 0
    /\ CollectableTreeNodes[CurrentRec.cid].kind = "contig"

\* C20 (byte counts of contiguous-container records): the number of bytes a
\* record of a contiguous container consumes is FULL: 3 + count*W,
\* ARRIVE: 1 + W, DEPART: 1, BOOKENDS: 1 + W, CHANGE: 3 + W, CARRY: 1,
\* whatever state the replayer is in: every Replay of the record that
\* returns, from the replayer's own state or from any other, returns that
\* count, and the pass of the loop takes the two id bytes and that count off
\* the blob, so that the cursor stands on the next record of the blob, also
\* when the record is a delta replayed before any FULL.
C20_BytesFromRecordAlone ==
    /\ [](AtContigRecord =>
            LET cid == CurrentRec.cid
                W == ElemNumBytes(cid)
            IN  \A st \in ContigStates \cup {replayers[cid]} :
                    LET r == Replay(cid, st, tick, CurrentRec.body)
                    IN  r.ok => r.n = ContigRecordBytes(CurrentRec, W))
    /\ [][(AtContigRecord /\ pc' # "raised") =>
            /\ Len(data_blob) - Len(data_blob') =
                  2 + ContigRecordBytes(CurrentRec, ElemNumBytes(CurrentRec.cid))
            /\ data_blob' = Encoded(Pos + 1)]_vars

\* A BOOKENDS record of the queue, first of its row, has been consumed
\* before any FULL: the queue's replayer holds no list, and the cursor stands
\* on the row's second record.
C20_Witness ==
    /\ pc = "blob"
    /\ Pos = 2
    /\ CurrentRecs[1].cid = 3
    /\ CurrentRecs[1].kind = "BOOKENDS"
    /\ replayers[3].values = None

(***************************************************************************)
(* SpecScalar: a scalar replayer of every width and collection mode, and   *)
(* Replay calls on it at ascending ticks.                                  *)
(***************************************************************************)
\* replayer.Replay(tick, data_blob, is_auto_collected, is_dev_debug)
ScalarReplay(t, blob) ==
    /\ t > replayer.tick
    /\ LET r == IF replayer.kind = "pod"
                THEN PODReplayer_Replay(replayer.st, replayer.num_bytes, t, blob,
                                        replayer.is_auto_collected)
                ELSE ScalarStructReplayer_Replay(replayer.st, replayer.num_bytes, t, blob,
                                                 replayer.is_auto_collected)
       IN  replayer' = [replayer EXCEPT !.st = r.st, !.tick = t, !.data_blob = blob,
                                        !.res = Some([ok |-> r.ok, n |-> r.n])]
    /\ UNCHANGED <<rows, heartbeat, replayers, pc, elem_path, time_range, fetched,
                   tick, data_blob, ret, calls, other, utiliz, deser, view, hier>>

\* The rows of CollectableTreeNodes a scalar replayer is built for: a POD, a
\* 3-byte struct and a 16-byte struct, each auto-collected or not.
ScalarNodes ==
    {NewReplayer(k[1], k[2], a) :
        k \in {<<"pod", NUM_BYTES_MAP("uint32_t")>>,
               <<"struct", struct_num_bytes("Pkt")>>,
               <<"struct", struct_num_bytes("Big")>>},
        a \in BOOLEAN}

\* A value of the given width.
ValueOfWidth(W) ==
    IF W = struct_num_bytes("Big") THEN B1
    ELSE IF W = struct_num_bytes("Pkt") THEN S1
    ELSE ToBytes(7, W)

\* Blobs handed to Replay: a bare value, a value behind each tag, a tag
\* alone, each with the next record's bytes behind it or with none.
ScalarWindows(W) ==
    {head \o rest :
        head \in {ValueOfWidth(W), <<WRITE>> \o ValueOfWidth(W),
                  <<ScalarCARRY>> \o ValueOfWidth(W), <<ScalarCARRY>>},
        rest \in {<<>>, ToBytes(3, 2)}}

InitScalar ==
    /\ InitRetriever({<<>>}, {1})
    /\ deser = NoDeserialize
    /\ replayer \in ScalarNodes
    /\ view = NewViewSettings
    /\ hier = NoHierarchy

NextScalar ==
    \E t \in 0..TickAt(MaxRows), blob \in ScalarWindows(replayer.num_bytes) :
        ScalarReplay(t, blob)

SpecScalar == InitScalar /\ [][NextScalar]_vars

\* The value a scalar replayer stores for a window of its width: the integer
\* for a POD, the bytes for a struct.
StoredValue(kind, window) ==
    IF kind = "pod" THEN StructUnpack(Len(window), window).val ELSE window

\* The last Replay call was made on a replayer that reads no action tag.
IsDirect == replayer.num_bytes < 16 \/ ~replayer.is_auto_collected

\* C21 (direct-write rule): a scalar/struct element whose width is < 16
\* bytes, or which is not auto-collected, is always replayed as a direct
\* write with no action tag: when the blob holds width bytes the call
\* returns, stores the first width bytes as the tick's value and consumes
\* exactly width bytes.  Only when the width is >= 16 and the element is
\* auto-collected is the first byte read as an action tag: a WRITE stores
\* the width bytes behind the tag and consumes 1 + width bytes, a CARRY that
\* returns consumes 1 byte and stores the latest earlier value.
C21_DirectWriteRule ==
    replayer.res # None =>
        LET W == replayer.num_bytes
            blob == replayer.data_blob
            res == replayer.res[1]
            history == replayer.st.values_by_tick
        IN  IF IsDirect
            THEN /\ Len(blob) >= W => res.ok
                 /\ res.ok =>
                       /\ res.n = W
                       /\ replayer.tick \in DOMAIN history
                       /\ history[replayer.tick] =
                             StoredValue(replayer.kind, SubSeq(blob, 1, Min(W, Len(blob))))
            ELSE /\ blob[1] = WRITE =>
                       /\ res.ok
                       /\ res.n = 1 + W
                       /\ history[replayer.tick] =
                             StoredValue(replayer.kind, SubSeq(blob, 2, 1 + W))
                 /\ (blob[1] = ScalarCARRY /\ res.ok) =>
                       /\ res.n = 1
                       /\ \E u \in DOMAIN history :
                             u < replayer.tick /\ history[replayer.tick] = history[u]
                 /\ blob[1] \notin ScalarActions => ~res.ok

\* A 16-byte struct that is not auto-collected has taken a blob whose first
\* byte is the CARRY tag as a direct write of 16 bytes, with no earlier value.
C21_Witness ==
    /\ replayer.kind = "struct"
    /\ replayer.num_bytes = 16
    /\ ~replayer.is_auto_collected
    /\ replayer.data_blob = <<ScalarCARRY>> \o B1
    /\ replayer.res = Some([ok |-> TRUE, n |-> 16])
    /\ DOMAIN replayer.st.values_by_tick = {replayer.tick}

(***************************************************************************)
(* The histories of the container replayers.                               *)
(***************************************************************************)
\* C22 (history entries are snapshots): once a contiguous or sparse container
\* replayer has stored the entry for tick t, no later Replay call for another
\* tick changes the entry stored for t: every pass of the demultiplexing
\* loop leaves every entry of every container replayer for a tick other than
\* the one being replayed as it was.
C22_EntriesAreSnapshots ==
    [][pc = "blob" =>
          \A c \in GetContainerIDs :
              \A t \in DOMAIN replayers[c].values_by_tick \ {tick} :
                  /\ t \in DOMAIN replayers'[c].values_by_tick
                  /\ replayers'[c].values_by_tick[t] = replayers[c].values_by_tick[t]]_vars

\* A call has replayed a FULL, an ARRIVE and a DEPART of the queue and two
\* dumps of the table: the entries of the first tick are still those the
\* first records made.
C22_Witness ==
    /\ pc = "done"
    /\ DOMAIN replayers[3].values_by_tick = {TickAt(1), TickAt(2), TickAt(3)}
    /\ DOMAIN replayers[4].values_by_tick = {TickAt(1), TickAt(2)}
    /\ replayers[3].values_by_tick[TickAt(1)] = <<S1, S2>>
    /\ replayers[3].values_by_tick[TickAt(2)] = <<S1, S2, S3>>
    /\ replayers[3].values_by_tick[TickAt(3)] = <<S2, S3>>
    /\ replayers[4].values_by_tick[TickAt(1)] = <<Some(S1), None>>
    /\ replayers[4].values_by_tick[TickAt(2)] = <<Some(S1), Some(S2)>>

\* The latest tick the replayer has an entry for.
LatestRecorded(values_by_tick) ==
    CHOOSE u \in DOMAIN values_by_tick : \A w \in DOMAIN values_by_tick : w <= u

\* C23 (contiguous-container CARRY): the entry stored for a CARRY tick equals
\* the entry of the nearest earlier tick with a recorded list, the CARRY
\* leaves the live list as it is, and the live list that later ARRIVE /
\* DEPART / BOOKENDS / CHANGE records are applied to is that same list:
\* whenever the replayer has a live list, it equals the history entry of the
\* latest recorded tick.
C23_CarryKeepsLiveList ==
    /\ [](\A c \in CollectableIDs :
            (CollectableTreeNodes[c].kind = "contig" /\ replayers[c].values # None) =>
                /\ DOMAIN replayers[c].values_by_tick # {}
                /\ replayers[c].values[1] =
                      replayers[c].values_by_tick[LatestRecorded(replayers[c].values_by_tick)])
    /\ [][(AtContigRecord /\ CurrentRec.kind = "CARRY" /\ pc' # "raised"
              /\ replayers[CurrentRec.cid].values # None) =>
            LET st == replayers[CurrentRec.cid]
                after == replayers'[CurrentRec.cid]
            IN  /\ after.values = st.values
                /\ tick \in DOMAIN after.values_by_tick
                /\ after.values_by_tick[tick] =
                      st.values_by_tick[LatestBelow(st.values_by_tick, tick)]]_vars

\* FULL [S1, S2], CARRY, ARRIVE S3 has been replayed: the CARRY tick holds
\* the FULL's list and the ARRIVE was applied to it.
C23_Witness ==
    /\ pc = "done"
    /\ DOMAIN replayers[3].values_by_tick = {TickAt(1), TickAt(2), TickAt(3)}
    /\ RowOfTick(TickAt(2)).Recs[1].kind = "CARRY"
    /\ replayers[3].values_by_tick[TickAt(1)] = <<S1, S2>>
    /\ replayers[3].values_by_tick[TickAt(2)] = <<S1, S2>>
    /\ replayers[3].values_by_tick[TickAt(3)] = <<S1, S2, S3>>
    /\ replayers[3].values = Some(<<S1, S2, S3>>)

(***************************************************************************)
(* The effect of each record of a contiguous container on the list.        *)
(***************************************************************************)
\* The loop is about to dispatch a record of the given kind to a contiguous
\* replayer.
AtContigKind(kind) == AtContigRecord /\ CurrentRec.kind = kind

\* C24 (BOOKENDS): on an established list of length n >= 1 a BOOKENDS record
\* yields a list of length n whose former front element is removed, whose
\* remaining elements keep their relative order, and whose last element is
\* the record's payload; that list is the tick's entry.
C24_Bookends ==
    [][(AtContigKind("BOOKENDS") /\ replayers[CurrentRec.cid].values # None
           /\ Len(replayers[CurrentRec.cid].values[1]) >= 1) =>
          LET old == replayers[CurrentRec.cid].values[1]
              after == replayers'[CurrentRec.cid]
              n == Len(old)
          IN  /\ pc' # "raised"
              /\ after.values # None
              /\ Len(after.values[1]) = n
              /\ \A i \in 1..(n - 1) : after.values[1][i] = old[i + 1]
              /\ after.values[1][n] = CurrentRec.structs[1]
              /\ after.values_by_tick[tick] = after.values[1]]_vars

\* FULL [S1, S2] then BOOKENDS S3 has been replayed: the list is [S2, S3].
C24_Witness ==
    /\ pc = "rows"
    /\ tick = TickAt(2)
    /\ CurrentRecs[1].kind = "BOOKENDS"
    /\ TickAt(1) \in DOMAIN replayers[3].values_by_tick
    /\ replayers[3].values_by_tick[TickAt(1)] = <<S1, S2>>
    /\ replayers[3].values = Some(<<S2, S3>>)

\* C25 (CHANGE): a CHANGE record with index i below the current length
\* replaces exactly the element at position i with the record's payload and
\* leaves the length and every other position unchanged; that list is the
\* tick's entry.
C25_Change ==
    [][(AtContigKind("CHANGE") /\ replayers[CurrentRec.cid].values # None
           /\ CurrentRec.idxs[1] < Len(replayers[CurrentRec.cid].values[1])) =>
          LET old == replayers[CurrentRec.cid].values[1]
              after == replayers'[CurrentRec.cid]
              i == CurrentRec.idxs[1]
          IN  /\ pc' # "raised"
              /\ after.values # None
              /\ Len(after.values[1]) = Len(old)
              /\ after.values[1][i + 1] = CurrentRec.structs[1]
              /\ \A j \in DOMAIN old : j # i + 1 => after.values[1][j] = old[j]
              /\ after.values_by_tick[tick] = after.values[1]]_vars

\* FULL [S1, S2] then CHANGE of index 1 to S3 has been replayed: the list is
\* [S1, S3].
C25_Witness ==
    /\ pc = "rows"
    /\ tick = TickAt(2)
    /\ CurrentRecs[1].kind = "CHANGE"
    /\ CurrentRecs[1].idxs = <<1>>
    /\ TickAt(1) \in DOMAIN replayers[3].values_by_tick
    /\ replayers[3].values_by_tick[TickAt(1)] = <<S1, S2>>
    /\ replayers[3].values = Some(<<S1, S3>>)

\* C26 (FULL): a FULL record with count c replaces the list wholesale:
\* whatever the prior state (no list yet, or any list), the live list and the
\* tick's entry afterwards are exactly the c payload structs in payload
\* order.
C26_Full ==
    [][AtContigKind("FULL") =>
          LET after == replayers'[CurrentRec.cid]
          IN  /\ pc' # "raised"
              /\ after.values = Some(CurrentRec.structs)
              /\ tick \in DOMAIN after.values_by_tick
              /\ after.values_by_tick[tick] = CurrentRec.structs]_vars

\* FULL [S1, S2], ARRIVE S3, FULL [S1] has been replayed: the list is [S1].
C26_Witness ==
    /\ pc = "rows"
    /\ tick = TickAt(3)
    /\ CurrentRecs[1].kind = "FULL"
    /\ TickAt(2) \in DOMAIN replayers[3].values_by_tick
    /\ replayers[3].values_by_tick[TickAt(2)] = <<S1, S2, S3>>
    /\ replayers[3].values = Some(<<S1>>)

(***************************************************************************)
(* SpecSparse: traces of a sparse container, a dump and a scalar per tick.  *)
(***************************************************************************)
\* Dumps of the table (capacity 2): empty, one bucket, both buckets in
\* descending order, and dumps naming bucket 2, which the table has not.
SparseDumps ==
    {SparseDump(4, <<>>, <<>>), SparseDump(4, <<0>>, <<S1>>),
     SparseDump(4, <<1>>, <<S2>>), SparseDump(4, <<1, 0>>, <<S2, S1>>),
     SparseDump(4, <<2>>, <<S3>>), SparseDump(4, <<0, 2>>, <<S1, S3>>)}

SparseBlobs == {<<d, PodValue(1, 7)>> : d \in SparseDumps}

InitSparse == InitWith(TracesOf(SparseBlobs), {1})

NextSparse ==
    \/ \E tr \in ContigQueries : UnpackBegin("top.table", tr)
    \/ FetchRow
    \/ ReplayRecord
    \/ UnpackReturn

SpecSparse == InitSparse /\ [][NextSparse]_vars

\* The loop is about to dispatch a dump to a sparse replayer.
AtSparseDump ==
    /\ pc = "blob"
    /\ Pos > 0
    /\ CollectableTreeNodes[CurrentRec.cid].kind = "sparse"

\* C27 (sparse-container dump layout): every stored entry has exactly
\* capacity slots; a dump one of whose bucket indices is >= capacity is
\* rejected (the call fails and no entry is stored for the tick); any other
\* dump is replayed, the j-th payload struct is stored at the j-th bucket
\* index of the index block, and the call consumes exactly
\* 2 + 2*valid_count + W*valid_count bytes, the cursor then standing on the
\* next record.
C27_SparseDumpLayout ==
    /\ [](\A c \in CollectableIDs : CollectableTreeNodes[c].kind = "sparse" =>
            \A t \in DOMAIN replayers[c].values_by_tick :
                Len(replayers[c].values_by_tick[t]) = CollectableTreeNodes[c].capacity)
    /\ [][AtSparseDump =>
            LET cid == CurrentRec.cid
                idxs == CurrentRec.idxs
                k == Len(idxs)
                W == ElemNumBytes(cid)
                capacity == CollectableTreeNodes[cid].capacity
                after == replayers'[cid]
            IN  IF \E j \in DOMAIN idxs : idxs[j] >= capacity
                THEN /\ pc' = "raised"
                     /\ after.values_by_tick = replayers[cid].values_by_tick
                ELSE /\ pc' # "raised"
                     /\ Len(data_blob) - Len(data_blob') = 2 + (2 + 2 * k + W * k)
                     /\ data_blob' = Encoded(Pos + 1)
                     /\ tick \in DOMAIN after.values_by_tick
                     /\ \A j \in DOMAIN idxs :
                            after.values_by_tick[tick][idxs[j] + 1] =
                                Some(CurrentRec.structs[j])]_vars

\* The dump of buckets 1, 0 with structs S2, S1 has been replayed at the
\* first tick and the scalar behind it consumed: bucket 0 holds S1, bucket 1
\* holds S2.
C27_Witness ==
    /\ pc = "rows"
    /\ tick = TickAt(1)
    /\ CurrentRecs[1].idxs = <<1, 0>>
    /\ replayers[4].values_by_tick = TickAt(1) :> <<Some(S1), Some(S2)>>
    /\ TickAt(1) \in DOMAIN replayers[1].values_by_tick

(***************************************************************************)
(* The demultiplexing loop and the replayers it feeds.                     *)
(***************************************************************************)
\* C28 (demultiplexing frame property): every record of every scanned tick
\* blob is dispatched to the replayer of the collectable id that prefixes
\* it, whichever element the caller requested: the pass hands the bytes
\* behind the id to that replayer, and only that replayer may change; the
\* replayer of every other element is left as it was.  Once a row has been
\* replayed to its end, every element with a record in it that holds a
\* whole value has an entry for the row's tick.
C28_DemuxFrame ==
    /\ [][(pc = "blob" /\ Pos > 0) =>
            LET cid == CurrentRec.cid
                r == Replay(cid, replayers[cid], tick, SliceFrom(data_blob, 2))
            IN  /\ \A c \in CollectableIDs \ {cid} : replayers'[c] = replayers[c]
                /\ replayers'[cid] = r.st
                /\ pc' = "raised" <=> ~r.ok]_vars
    /\ []((pc = "rows" /\ tick # NoTick) =>
            \A i \in DOMAIN CurrentRecs :
                IsWholeValue(CurrentRecs[i]) =>
                    tick \in DOMAIN replayers[CurrentRecs[i].cid].values_by_tick)

\* A call for the queue has returned, and the records of the four other
\* elements in the first row were replayed into their own replayers.
C28_Witness ==
    /\ pc = "done"
    /\ elem_path = "top.queue"
    /\ ret # None
    /\ Len(ret[1].TimeVals) >= 1
    /\ \A c \in CollectableIDs : TickAt(1) \in DOMAIN replayers[c].values_by_tick

\* C29 (a negative bound means unbounded on that side) as stated: a call
\* Unpack(path, (lo, -1)) with lo >= 0 that returns returns every tick >= lo
\* at which the element has a value, and a call Unpack(path, (-1, hi)) that
\* returns returns every such tick <= hi.
C29_NegativeBoundUnbounded ==
    (pc = "done" /\ Len(time_range) = 2) =>
        LET history == replayers[CidOfPath(elem_path)].values_by_tick
            returned == {ret[1].TimeVals[i] : i \in DOMAIN ret[1].TimeVals}
            lo == time_range[1]
            hi == time_range[2]
        IN  /\ (lo >= 0 /\ hi < 0) => returned = {t \in DOMAIN history : t >= lo}
            /\ (lo < 0 /\ hi >= 0) => returned = {t \in DOMAIN history : t <= hi}

\* C30 (capacity bound) as stated: after any sequence of FULL / ARRIVE /
\* DEPART / BOOKENDS / CHANGE / CARRY records replayed by a contiguous
\* container replayer, the live list and every stored history entry have at
\* most as many elements as the container's declared capacity.
C30_CapacityBound ==
    \A c \in CollectableIDs : CollectableTreeNodes[c].kind = "contig" =>
        /\ replayers[c].values # None =>
              Len(replayers[c].values[1]) <= CollectableTreeNodes[c].capacity
        /\ \A t \in DOMAIN replayers[c].values_by_tick :
              Len(replayers[c].values_by_tick[t]) <= CollectableTreeNodes[c].capacity

\* C31 (DEPART on an empty list, CHANGE beyond the list): a DEPART applied
\* to an established but empty list, or a CHANGE whose index is >= the
\* current list length, aborts the query with an error: the call returns
\* nothing, no history entry is stored for the tick and the live list is not
\* modified.
C31_DepartChangeAbort ==
    [][(AtContigRecord /\ replayers[CurrentRec.cid].values # None
           /\ \/ CurrentRec.kind = "DEPART" /\ replayers[CurrentRec.cid].values[1] = <<>>
              \/ /\ CurrentRec.kind = "CHANGE"
                 /\ CurrentRec.idxs[1] >= Len(replayers[CurrentRec.cid].values[1])) =>
          /\ pc' = "raised"
          /\ ret' = None
          /\ replayers' = replayers
          /\ tick \notin DOMAIN replayers'[CurrentRec.cid].values_by_tick]_vars

\* The call has failed on the DEPART that followed a FULL of no elements.
C31_Witness ==
    /\ pc = "raised"
    /\ tick = TickAt(2)
    /\ CurrentRecs[1].kind = "DEPART"
    /\ replayers[3].values = Some(<<>>)
    /\ DOMAIN replayers[3].values_by_tick = {TickAt(1)}

(***************************************************************************)
(* SpecEmpty: traces in which a tick may have been recorded with a blob of  *)
(* zero bytes.                                                             *)
(***************************************************************************)
EmptyBlobs == {<<>>, <<QueueFull(3, <<S1>>)>>, <<QueueArrive(3, S2)>>}

InitEmpty == InitWith(TracesOf(EmptyBlobs), {1})

NextEmpty ==
    \/ \E tr \in ContigQueries : UnpackBegin("top.queue", tr)
    \/ FetchRow
    \/ ReplayRecord
    \/ UnpackReturn

SpecEmpty == InitEmpty /\ [][NextEmpty]_vars

\* C32 (empty tick blob) as stated: a tick record whose blob is empty holds
\* zero records: the loop goes through it without an error, dispatches
\* nothing to any replayer for that tick, and continues with the next tick
\* record.
C32_EmptyBlobSkipped ==
    [][(pc = "blob" /\ RowOfTick(tick).Recs = <<>>) =>
          /\ pc' = "rows"
          /\ replayers' = replayers]_vars

\* C33 (lower bound beyond the trace) as stated: a call Unpack(path, (lo, hi))
\* whose lower bound is greater than every tick of the trace does not fail,
\* and what it returns are empty ticks and values arrays.
C33_BoundBeyondTrace ==
    (Len(time_range) = 2 /\ \A i \in DOMAIN rows : time_range[1] > rows[i].Tick) =>
        /\ pc # "raised"
        /\ pc = "done" => ret = Some([TimeVals |-> <<>>, DataVals |-> <<>>])

(***************************************************************************)
(* SpecView: ViewSettings, its dirty flag and dirty reasons, and the       *)
(* SaveViewFileDlg that is handed the set of reasons.                      *)
(***************************************************************************)
\* Members of DirtyReasons that the widgets pass to SetDirty.
Reasons == {"TabAdded", "TabRenamed", "WidgetDropped"}

\* ViewSettings.SetDirty(dirty, reason) on the record v.  since collects the
\* reasons passed with dirty=True since the view last became clean.
SetDirtyOf(v, dirty, reason) ==
    [v EXCEPT !.dirty = dirty,
              !.dirty_reasons = IF dirty /\ reason # None THEN @ \cup {reason[1]}
                                ELSE IF ~dirty THEN {}
                                ELSE @,
              !.since = IF dirty /\ reason # None THEN @ \cup {reason[1]}
                        ELSE IF ~dirty THEN {}
                        ELSE @]

\* __ResetDefaultViewSettings: self.view_file = None; self.SetDirty(False)
ResetDefaultViewSettings(v) == SetDirtyOf([v EXCEPT !.view_file = None], FALSE, None)

\* The rest of SaveView once the answer is Save: without a file to write to
\* nothing is saved; otherwise the file is written, and
\* self.view_file = view_file; self.SetDirty(False).
WriteView(v, view_file) ==
    IF view_file = None THEN v
    ELSE SetDirtyOf([v EXCEPT !.view_file = view_file], FALSE, None)

\* A widget reports a change, or some code marks the view clean.
SetDirty(dirty, reason) ==
    /\ view.dlg = "none"
    /\ view' = [SetDirtyOf(view, dirty, reason) EXCEPT !.raised = FALSE]
    /\ UNCHANGED <<rows, heartbeat, replayers, pc, elem_path, time_range, fetched,
                   tick, data_blob, ret, calls, other, utiliz, deser, replayer, hier>>

\* ViewSettings.Load(view_file): nothing but a message box when the file does
\* not exist.
Load(view_file, isfile) ==
    /\ view.dlg = "none"
    /\ view' = IF isfile
               THEN [SetDirtyOf([view EXCEPT !.view_file = Some(view_file)], FALSE, None)
                        EXCEPT !.raised = FALSE]
               ELSE [view EXCEPT !.raised = FALSE]
    /\ UNCHANGED <<rows, heartbeat, replayers, pc, elem_path, time_range, fetched,
                   tick, data_blob, ret, calls, other, utiliz, deser, replayer, hier>>

\* ViewSettings.SaveView() up to dlg.ShowModal(): a clean view returns at
\* once, a dirty one opens SaveViewFileDlg(reasons=self._dirty_reasons).
SaveView ==
    /\ view.dlg = "none"
    /\ view' = [view EXCEPT !.dlg = IF view.dirty THEN "save" ELSE "none",
                            !.raised = FALSE]
    /\ UNCHANGED <<rows, heartbeat, replayers, pc, elem_path, time_range, fetched,
                   tick, data_blob, ret, calls, other, utiliz, deser, replayer, hier>>

\* ViewSettings.CreateNewView() up to the dialog: a clean view is reset at
\* once, a dirty one opens the dialog of __AskToSaveChangesToCurrentView.
CreateNewView ==
    /\ view.dlg = "none"
    /\ view' = IF view.dirty
               THEN [view EXCEPT !.dlg = "new", !.raised = FALSE]
               ELSE [ResetDefaultViewSettings(view) EXCEPT !.raised = FALSE]
    /\ UNCHANGED <<rows, heartbeat, replayers, pc, elem_path, time_range, fetched,
                   tick, data_blob, ret, calls, other, utiliz, deser, replayer, hier>>

\* SaveViewFileDlg.__ShowWhatChanged: the "What changed?" button.  The
\* dialog's _reasons is the very set object of ViewSettings._dirty_reasons:
\* with more than one reason they are listed, otherwise the message is taken
\* with self._reasons.pop(), which removes the reason from the set and raises
\* KeyError on an empty set.
ShowWhatChanged ==
    /\ view.dlg # "none"
    /\ view' = IF Cardinality(view.dirty_reasons) > 1
               THEN [view EXCEPT !.raised = FALSE]
               ELSE IF view.dirty_reasons = {}
               THEN [view EXCEPT !.raised = TRUE]
               ELSE [view EXCEPT !.dirty_reasons = {}, !.raised = FALSE]
    /\ UNCHANGED <<rows, heartbeat, replayers, pc, elem_path, time_range, fetched,
                   tick, data_blob, ret, calls, other, utiliz, deser, replayer, hier>>

\* What follows dlg.ShowModal() for the answer result, in SaveView and in
\* CreateNewView; picked is the file the user picks when the view has none
\* (None when the file dialog is cancelled).
EndModal(result, picked) ==
    /\ view.dlg # "none"
    /\ LET closed == [view EXCEPT !.dlg = "none", !.raised = FALSE]
           view_file == IF view.view_file # None THEN view.view_file ELSE picked
       IN  view' =
             CASE result = "ID_CANCEL" -> closed
               [] result = "ID_NO" ->
                     IF view.dlg = "save" THEN closed
                     ELSE ResetDefaultViewSettings(closed)
               [] result = "ID_YES" ->
                     IF view.dlg = "save" THEN WriteView(closed, view_file)
                     ELSE IF view_file = None THEN closed
                     ELSE ResetDefaultViewSettings(
                              WriteView(SetDirtyOf(closed, TRUE, None), view_file))
    /\ UNCHANGED <<rows, heartbeat, replayers, pc, elem_path, time_range, fetched,
                   tick, data_blob, ret, calls, other, utiliz, deser, replayer, hier>>

InitView ==
    /\ InitRetriever({<<>>}, {1})
    /\ deser = NoDeserialize
    /\ replayer = NoReplay
    /\ view = NewViewSettings
    /\ hier = NoHierarchy

NextView ==
    \/ \E dirty \in BOOLEAN, reason \in {None} \cup {Some(r) : r \in Reasons} :
          SetDirty(dirty, reason)
    \/ \E isfile \in BOOLEAN : Load("a.avf", isfile)
    \/ SaveView
    \/ CreateNewView
    \/ ShowWhatChanged
    \/ \E result \in {"ID_YES", "ID_NO", "ID_CANCEL"}, picked \in {None, Some("b.avf")} :
          EndModal(result, picked)

SpecView == InitView /\ [][NextView]_vars

\* C34 (dirty-state invariant) as stated: after any sequence of SetDirty
\* calls, loads, saves and "What changed?" views, the set of dirty reasons is
\* empty whenever the view is not dirty, and every reason passed to
\* SetDirty(True, reason) since the view last became clean is still in the
\* set.
C34_DirtyReasonsKept ==
    /\ ~view.dirty => view.dirty_reasons = {}
    /\ view.since \subseteq view.dirty_reasons

(***************************************************************************)
(* SpecHier: SimHierarchy, the element tree read from ElementTreeNodes,    *)
(* its two path tables and the lookups GetElemPath and GetElemID.          *)
(***************************************************************************)
MaxElems == 4

ElemNames == {"a", "b"}

\* The rows of ElementTreeNodes(Id, ParentID, Name), row i holding Id i: one
\* root row with ParentID 0, every other row below an earlier row, and no two
\* rows with the same parent and name (the collector makes one node per
\* distinct dotted path, split at the dots).
ElementTreeNodes ==
    UNION {
      { [i \in 1..n |-> IF i = 1 THEN [Name |-> "root", ParentID |-> 0] ELSE t[i]] :
          t \in { u \in [2..n -> [Name : ElemNames, ParentID : 1..(n - 1)]] :
                    /\ \A i \in 2..n : u[i].ParentID < i
                    /\ \A i, j \in 2..n :
                          (i # j /\ u[i].ParentID = u[j].ParentID) => u[i].Name # u[j].Name } }
      : n \in 1..MaxElems }

\* __RecurseBuildHierarchy from parent 0: the one row whose ParentID is 0.
RootIDOf(nodes) == CHOOSE id \in DOMAIN nodes : nodes[id].ParentID = 0

RECURSIVE GetLineage_WithRoot(_, _, _)
\* GetLineage that stops only at parent 0, so that the root heads the lineage.
GetLineage_WithRoot(elem_id, nodes, root_id) ==
    IF elem_id = 0 THEN <<>>
    ELSE Append(GetLineage_WithRoot(nodes[elem_id].ParentID, nodes, root_id), elem_id)

RECURSIVE GetLineage(_, _, _)
\* GetLineage: the ids from elem_id up to, and without, the root, reversed
\* into top-down order.
GetLineage(elem_id, nodes, root_id) ==
    IF elem_id \in {0, root_id} THEN <<>>
    ELSE Append(GetLineage(nodes[elem_id].ParentID, nodes, root_id), elem_id)

RECURSIVE DotJoin(_)
\* '.'.join(names)
DotJoin(names) ==
    IF names = <<>> THEN ""
    ELSE IF Len(names) = 1 THEN names[1]
    ELSE names[1] \o "." \o DotJoin(Tail(names))

\* GetPath: the names along the lineage, joined with dots.
GetPath(elem_id, nodes, root_id) ==
    LET lineage == GetLineage(elem_id, nodes, root_id)
    IN  DotJoin([k \in 1..Len(lineage) |-> nodes[lineage[k]].Name])

\* SimHierarchy.__init__: elem_paths_by_id keeps the non-empty paths, and
\* elem_ids_by_path is its inversion {v: k for k, v in ...}, in which the
\* last id in row order wins a path that occurs twice.
SimHierarchy(nodes) ==
    LET root_id == RootIDOf(nodes)
        ids == {id \in DOMAIN nodes : GetPath(id, nodes, root_id) # ""}
        elem_paths_by_id == [id \in ids |-> GetPath(id, nodes, root_id)]
        paths == {elem_paths_by_id[id] : id \in ids}
    IN  [nodes |-> nodes,
         root_id |-> Some(root_id),
         elem_paths_by_id |-> elem_paths_by_id,
         elem_ids_by_path |->
             [p \in paths |->
                 CHOOSE id \in ids :
                     /\ elem_paths_by_id[id] = p
                     /\ \A other_id \in ids : elem_paths_by_id[other_id] = p => other_id <= id],
         call |-> None]

\* SimHierarchy.GetElemPath(elem_id): self._elem_paths_by_id[elem_id], a
\* KeyError for an id without a path.
SimHierarchy_GetElemPath(elem_id) ==
    /\ hier.root_id # None
    /\ elem_id \in DOMAIN hier.nodes
    /\ hier' = [hier EXCEPT !.call =
                  Some([op |-> "GetElemPath", arg |-> Some(elem_id),
                        result |-> IF elem_id \in DOMAIN hier.elem_paths_by_id
                                   THEN Some(hier.elem_paths_by_id[elem_id])
                                   ELSE Some("KeyError")])]
    /\ UNCHANGED <<rows, heartbeat, replayers, pc, elem_path, time_range, fetched,
                   tick, data_blob, ret, calls, other, utiliz, deser, replayer, view>>

\* SimHierarchy.GetElemID(elem_path): self._elem_ids_by_path.get(elem_path)
SimHierarchy_GetElemID(path) ==
    /\ hier.root_id # None
    /\ hier' = [hier EXCEPT !.call =
                  Some([op |-> "GetElemID", arg |-> Some(path),
                        result |-> IF path \in DOMAIN hier.elem_ids_by_path
                                   THEN Some(hier.elem_ids_by_path[path])
                                   ELSE None])]
    /\ UNCHANGED <<rows, heartbeat, replayers, pc, elem_path, time_range, fetched,
                   tick, data_blob, ret, calls, other, utiliz, deser, replayer, view>>

InitHier ==
    /\ InitRetriever({<<>>}, {1})
    /\ deser = NoDeserialize
    /\ replayer = NoReplay
    /\ view = NewViewSettings
    /\ \E nodes \in ElementTreeNodes : hier = SimHierarchy(nodes)

\* The paths asked of GetElemID: the root's name and every dotted path of
\* up to MaxElems - 1 names, whether or not an element of the tree has it.
LookupPaths ==
    {"root"} \cup
    UNION { {DotJoin(names) : names \in [1..n -> ElemNames]} : n \in 1..(MaxElems - 1) }

NextHier ==
    \/ \E elem_id \in 1..MaxElems : SimHierarchy_GetElemPath(elem_id)
    \/ \E path \in LookupPaths : SimHierarchy_GetElemID(path)

SpecHier == InitHier /\ [][NextHier]_vars

\* The canonical path of a non-root element, by induction down the tree: the
\* name of a child of the root, and the parent's path, a dot and the name
\* below that.
RECURSIVE CanonicalPath(_)
CanonicalPath(id) ==
    IF hier.nodes[id].ParentID = hier.root_id[1] THEN hier.nodes[id].Name
    ELSE CanonicalPath(hier.nodes[id].ParentID) \o "." \o hier.nodes[id].Name

\* C35 (canonical paths round-trip): for every element other than the root,
\* its path is the dot-joined names of its ancestors below the root down to
\* itself, the root is not in its lineage, and resolving the path gives the
\* same id back: GetElemID(GetElemPath(id)) = id, in the tables and in the
\* answers of the two lookups.
C35_PathsRoundTrip ==
    hier.root_id # None =>
      \A id \in DOMAIN hier.nodes \ {hier.root_id[1]} :
        /\ id \in DOMAIN hier.elem_paths_by_id
        /\ hier.elem_paths_by_id[id] = CanonicalPath(id)
        /\ hier.elem_paths_by_id[id] \in DOMAIN hier.elem_ids_by_path
        /\ hier.elem_ids_by_path[hier.elem_paths_by_id[id]] = id
        /\ (hier.call # None /\ hier.call[1].op = "GetElemPath" /\ hier.call[1].arg = Some(id))
              => hier.call[1].result = Some(CanonicalPath(id))
        /\ (hier.call # None /\ hier.call[1].op = "GetElemID"
                /\ hier.call[1].arg = Some(hier.elem_paths_by_id[id]))
              => hier.call[1].result = Some(id)

\* In a tree of MaxElems elements, the path "a.b" has just been resolved to
\* an element two levels below the root.
C35_Witness ==
    /\ hier.root_id # None
    /\ hier.call # None
    /\ hier.call[1].op = "GetElemID"
    /\ hier.call[1].arg = Some("a.b")
    /\ hier.call[1].result # None
    /\ hier.nodes[hier.call[1].result[1]].ParentID # hier.root_id[1]
    /\ Len(hier.nodes) = MaxElems

====
